---- MODULE Spec2Model ----
(***************************************************************************)
(* A model of the plan-document engine and the orchestration loop of       *)
(* ollama-agent.                                                           *)
(*                                                                         *)
(* Text is modelled as a sequence of tokens.  A token is either a piece of *)
(* markup that the serializer writes and the deserializer's regular        *)
(* expressions look for ("##", "**Rationale:**", "[x]", "\n", ...) or an   *)
(* atom of free text ("g1", "t1", ...).  A JavaScript string is therefore  *)
(* a sequence of tokens, the empty string is << >>, string concatenation   *)
(* is \o, and the regular expressions are scans over token sequences.      *)
(***************************************************************************)
EXTENDS Integers, Sequences, FiniteSets, TLC

(***************************************************************************)
(* Bounds of the model.                                                    *)
(***************************************************************************)
MaxTime == 5
TicksPerMinute == 2
MinutesPerDay == 2
MaxItems == 2
MaxNumber == 12
MaxRequests == 2
MaxTasks == 2
MaxJunk == 3
MaxMessages == 3
MaxChats == 2
MaxReplies == 3
MaxNewMessages == 3
MaxHeaderLines == 2
MaxCriterionLines == 2
MaxSliceMessages == 4
MaxVisibleLines == 5
MaxScrollOffset == 9
MaxSimpleCalls == 2
MaxFairRequests == 1
ConfigMaxIterations == 3

NL == "\n"

Min(S) == CHOOSE x \in S : \A y \in S : x <= y
Max(S) == CHOOSE x \in S : \A y \in S : x >= y

(***************************************************************************)
(* String primitives of JavaScript, on token sequences.                    *)
(***************************************************************************)
IsWs(t) == t \in {" ", NL}

\* String.prototype.trim
Trim(s) ==
  LET idx == {i \in 1..Len(s) : ~IsWs(s[i])}
  IN  IF idx = {} THEN << >> ELSE SubSeq(s, Min(idx), Max(idx))

\* s.startsWith(pat) at position i (1-based)
MatchAt(s, i, pat) ==
  /\ i >= 1
  /\ i + Len(pat) - 1 <= Len(s)
  /\ \A k \in 1..Len(pat) : s[i + k - 1] = pat[k]

\* The positions from `from` on at which pat occurs in s.
Occurrences(s, pat, from) == {i \in from..Len(s) : MatchAt(s, i, pat)}

\* String.prototype.split(sep), sep a non-empty string
RECURSIVE Split(_, _)
Split(s, sep) ==
  LET occ == Occurrences(s, sep, 1)
  IN  IF occ = {} THEN << s >>
      ELSE LET i == Min(occ)
           IN  << SubSeq(s, 1, i - 1) >> \o Split(SubSeq(s, i + Len(sep), Len(s)), sep)

\* Array.prototype.join(sep)
RECURSIVE Join(_, _)
Join(parts, sep) ==
  IF Len(parts) = 0 THEN << >>
  ELSE IF Len(parts) = 1 THEN parts[1]
  ELSE parts[1] \o sep \o Join(Tail(parts), sep)

\* The text from position i up to, not including, the next line break.
RestOfLine(s, i) ==
  LET nls == {k \in i..Len(s) : s[k] = NL}
  IN  IF nls = {} THEN SubSeq(s, i, Len(s)) ELSE SubSeq(s, i, Min(nls) - 1)

(***************************************************************************)
(* Dates.  A timestamp is a number of ticks; the serializer prints the day *)
(* (toISOString().split('T')[0]) and the minute of the day                 *)
(* (toTimeString().slice(0, 5)), the deserializer reads both back with     *)
(* new Date(`${date}T${time}:00`).  The process runs in UTC.               *)
(***************************************************************************)
TicksPerDay == TicksPerMinute * MinutesPerDay
DateStr(ts) == "D" \o ToString(ts \div TicksPerDay)
TimeStr(ts) == "T" \o ToString((ts % TicksPerDay) \div TicksPerMinute)
Days == 0..(MaxTime \div TicksPerDay)
MinutesOfDay == 0..(MinutesPerDay - 1)
IsDate(t) == \E d \in Days : t = "D" \o ToString(d)
IsTime(t) == \E m \in MinutesOfDay : t = "T" \o ToString(m)
DateOf(t) == CHOOSE d \in Days : t = "D" \o ToString(d)
TimeOf(t) == CHOOSE m \in MinutesOfDay : t = "T" \o ToString(m)
\* new Date(`${date}T${time}:00`).getTime()
ParseDate(date, time) == DateOf(date) * TicksPerDay + TimeOf(time) * TicksPerMinute

\* Number.parseInt(value, 10); NaN is returned as 0: every caller goes on
\* with `parsed || default`, for which NaN and 0 are the same.
ParseInt(v) ==
  IF v # << >> /\ \E n \in 0..MaxNumber : ToString(n) = v[1]
  THEN CHOOSE n \in 0..MaxNumber : ToString(n) = v[1]
  ELSE 0

(***************************************************************************)
(* PlanSerializer                                                          *)
(***************************************************************************)
GoalPlaceholder == << "[User will provide goal]" >>
TitlePlaceholder == << "[Goal to be defined]" >>
CriteriaPlaceholder == << "[Criteria will be added once goal is defined]" >>

serializeCriterion(c) ==
  << "-", " ", (IF c.completed THEN "[x]" ELSE "[ ]"), " " >> \o c.description
    \o (IF c.notes # << >> THEN << " ", "*(" >> \o c.notes \o << ")*" >> ELSE << >>)

serializeAcceptanceCriteria(criteria) ==
  IF Len(criteria) = 0
  THEN << "##", " ", "Acceptance Criteria", NL, "-", " ", "[ ]", " " >> \o CriteriaPlaceholder
  ELSE << "##", " ", "Acceptance Criteria", NL >>
         \o Join([i \in 1..Len(criteria) |-> serializeCriterion(criteria[i])], << NL >>)

serializeDecision(d, altLabel, dateLabel) ==
  << NL, "###", " " >> \o d.title
    \o << NL, "**Rationale:**", " " >> \o d.rationale
    \o (IF Len(d.alternatives) > 0
        THEN << NL, altLabel, " " >> \o Join(d.alternatives, << ",", " " >>)
        ELSE << >>)
    \o << NL, dateLabel, " ", DateStr(d.timestamp), " ", TimeStr(d.timestamp) >>

serializeDecisionMade(d) == serializeDecision(d, "**Alternatives considered:**", "**Decided:**")
serializeDecisionRejected(d) == serializeDecision(d, "**Alternative:**", "**Rejected:**")

serializeDecisionsMade(decisions) ==
  IF Len(decisions) = 0
  THEN << NL, "##", " ", "Decisions Made", NL, "[No decisions yet]" >>
  ELSE << NL, "##", " ", "Decisions Made" >>
         \o Join([i \in 1..Len(decisions) |-> serializeDecisionMade(decisions[i])], << NL >>)

serializeDecisionsRejected(decisions) ==
  IF Len(decisions) = 0
  THEN << NL, "##", " ", "Decisions Rejected", NL, "[No rejected decisions yet]" >>
  ELSE << NL, "##", " ", "Decisions Rejected" >>
         \o Join([i \in 1..Len(decisions) |-> serializeDecisionRejected(decisions[i])], << NL >>)

serializeLogEntry(e) ==
  << NL, "###", " ", DateStr(e.timestamp), " ", TimeStr(e.timestamp), " ", "-", " " >> \o e.action
    \o << NL, "**Tools:**", " " >> \o Join(e.toolsUsed, << ",", " " >>)
    \o << NL, "**Result:**", " " >> \o e.result

serializeExecutionLog(log) ==
  IF Len(log) = 0
  THEN << NL, "##", " ", "Execution Log", NL, "[No actions taken yet]" >>
  ELSE << NL, "##", " ", "Execution Log" >> \o Join([i \in 1..Len(log) |-> serializeLogEntry(log[i])], << NL >>)

serialize(plan) ==
  LET frontmatter ==
        Join(<< << "---" >>,
                << "status", ":", " ", plan.status >>,
                << "createdAt", ":", " ", ToString(plan.metadata.createdAt) >>,
                << "updatedAt", ":", " ", ToString(plan.metadata.updatedAt) >>,
                << "version", ":", " ", ToString(plan.metadata.version) >>,
                << "---" >>,
                << >> >>, << NL >>)
      body ==
        Join(<< << "#", " ", "Plan:", " " >>
                   \o (IF plan.goal # << >> THEN plan.goal ELSE TitlePlaceholder),
                << >>,
                << "**Status:**", " ", plan.status >>,
                << >>,
                << "##", " ", "Goal" >>,
                (IF plan.goal # << >> THEN plan.goal ELSE GoalPlaceholder),
                << >>,
                serializeAcceptanceCriteria(plan.acceptanceCriteria),
                serializeDecisionsMade(plan.decisionsMade),
                serializeDecisionsRejected(plan.decisionsRejected),
                serializeExecutionLog(plan.executionLog) >>, << NL >>)
  IN  frontmatter \o body

(***************************************************************************)
(* PlanDeserializer                                                        *)
(***************************************************************************)
\* A value that is no string (undefined, null): markdown.match is not a
\* function of it, so deserialize's try block throws a TypeError.
Undefined == << "undefined" >>

ValidStatuses == {"planning", "in_progress", "blocked", "completed", "failed"}

\* Tokens that contain an asterisk, a closing parenthesis, start with a dash,
\* are a one-character checkbox, or do not start with a word character.
StarToks == {"*", "*(", ")*", "**Status:**", "**Rationale:**", "**Alternatives considered:**",
             "**Alternatives:**", "**Alternative:**", "**Decided:**", "**Rejected:**",
             "**Tools:**", "**Result:**"}
ParenToks == {")", ")*"}
DashToks == {"-", "---"}
CheckedBoxes == {"[x]", "[X]", "[U+2713]", "[U+2714]"}
Boxes == CheckedBoxes \cup {"[ ]", "[-]"}
NonWordToks == StarToks \cup ParenToks \cup DashToks \cup Boxes
                 \cup {" ", NL, "#", "##", "###", ",", ":", "[User will provide goal]",
                       "[Goal to be defined]", "[Criteria will be added once goal is defined]",
                       "[No decisions yet]", "[No rejected decisions yet]",
                       "[No actions taken yet]"}

\* String.prototype.toLowerCase on the status words
ToLower(t) ==
  CASE t = "PLANNING" -> "planning"
    [] t = "IN_PROGRESS" -> "in_progress"
    [] t = "BLOCKED" -> "blocked"
    [] t = "COMPLETED" -> "completed"
    [] t = "FAILED" -> "failed"
    [] OTHER -> t

\* \s* from position i: the first position that holds no white space.
SkipWs(s, i) ==
  LET idx == {j \in i..Len(s) : ~IsWs(s[j])}
  IN  IF idx = {} THEN Len(s) + 1 ELSE Min(idx)

\* /LABEL\s*([^\n]+)/: the rest of the line that follows the first label and
\* the white space (line breaks included) after it; '' when nothing does.
FieldAfter(s, labels) ==
  LET hits == {i \in 1..Len(s) : s[i] \in labels}
  IN  IF hits = {} THEN << >>
      ELSE LET j == SkipWs(s, Min(hits) + 1)
           IN  IF j > Len(s) THEN << >> ELSE RestOfLine(s, j)

NonEmpty(x) == x # << >>

\* value.split(',').map(s => s.trim()).filter(Boolean)
CommaList(v) ==
  LET parts == Split(v, << "," >>)
  IN  SelectSeq([i \in 1..Len(parts) |-> Trim(parts[i])], NonEmpty)

\* "## name\n" occurs at i; the pattern is not anchored, so it also occurs
\* inside "### name\n".
HeadingAt(s, i, name) == s[i] \in {"##", "###"} /\ MatchAt(s, i + 1, << " ", name, NL >>)

DefaultFrontmatter ==
  << "status", ":", " ", "planning", NL, "createdAt", ":", " ", "0", NL,
     "updatedAt", ":", " ", "0", NL, "version", ":", " ", "1" >>

extractFrontmatter(markdown) ==
  LET closes == IF MatchAt(markdown, 1, << "---", NL >>)
                THEN Occurrences(markdown, << NL, "---", NL >>, 3)
                ELSE {}
  IN  IF closes = {}
      THEN [frontmatter |-> DefaultFrontmatter, body |-> markdown]
      ELSE [frontmatter |-> SubSeq(markdown, 3, Min(closes) - 1),
            body |-> SubSeq(markdown, Min(closes) + 3, Len(markdown))]

\* The number parseMetadata's loop leaves in metadata[key]: the value of the
\* last line whose key it is, 0 (falsy) when there is none.
MetadataField(frontmatter, key) ==
  LET lines == Split(frontmatter, << NL >>)
      parts == [i \in 1..Len(lines) |-> Split(lines[i], << ":" >>)]
      hits == {i \in 1..Len(lines) : Trim(parts[i][1]) = << key >>}
  IN  IF hits = {} THEN 0
      ELSE LET p == parts[Max(hits)]
           IN  ParseInt(IF Len(p) >= 2 THEN Trim(p[2]) ELSE << >>)

\* parseMetadata without the `|| Date.now()` and `|| 1` of its return statement.
parseMetadataNoDefaults(frontmatter, now) ==
  [createdAt |-> MetadataField(frontmatter, "createdAt"),
   updatedAt |-> MetadataField(frontmatter, "updatedAt"),
   version |-> MetadataField(frontmatter, "version")]

parseMetadata(frontmatter, now) ==
  LET createdAt == MetadataField(frontmatter, "createdAt")
      updatedAt == MetadataField(frontmatter, "updatedAt")
      version == MetadataField(frontmatter, "version")
  IN  [createdAt |-> IF createdAt # 0 THEN createdAt ELSE now,
       updatedAt |-> IF updatedAt # 0 THEN updatedAt ELSE now,
       version |-> IF version # 0 THEN version ELSE 1]

parseStatus(body) ==
  LET hits == {i \in 1..Len(body) :
                 /\ body[i] = "**Status:**"
                 /\ SkipWs(body, i + 1) <= Len(body)
                 /\ body[SkipWs(body, i + 1)] \notin NonWordToks}
  IN  IF hits = {} THEN "planning"
      ELSE LET status == ToLower(body[SkipWs(body, Min(hits) + 1)])
           IN  IF status \in ValidStatuses THEN status ELSE "planning"

parseGoal(body) ==
  LET hits == {i \in 1..Len(body) :
                 HeadingAt(body, i, "Goal") /\ i + 4 <= Len(body) /\ body[i + 4] # NL}
  IN  IF hits = {} THEN << >>
      ELSE LET goal == Trim(RestOfLine(body, Min(hits) + 4))
           IN  IF goal = << >> \/ goal = GoalPlaceholder THEN << >> ELSE goal

extractSection(body, sectionName) ==
  LET hits == {i \in 1..Len(body) : HeadingAt(body, i, sectionName)}
  IN  IF hits = {} THEN << >>
      ELSE LET start == Min(hits) + 4
               ends == Occurrences(body, << NL, "##", " " >>, start)
               stop == IF ends = {} THEN Len(body) ELSE Min(ends) - 1
           IN  Trim(SubSeq(body, start, stop))

\* One "- [?] description *(notes)*" line.
parseCriterion(line) ==
  LET boxes == {i \in 1..Len(line) :
                  line[i] \in Boxes /\ i < Len(line) /\ line[i + 1] \notin StarToks}
      stars(i) == {k \in i..Len(line) : line[k] \in StarToks}
      descEnd(i) == IF stars(i) = {} THEN Len(line) ELSE Min(stars(i)) - 1
      parens(i) == {k \in i..Len(line) : line[k] \in ParenToks}
      opens == {i \in 1..Len(line) :
                  /\ line[i] = "*("
                  /\ parens(i + 1) # {}
                  /\ Min(parens(i + 1)) > i + 1
                  /\ line[Min(parens(i + 1))] = ")*"}
  IN  [description |-> IF boxes = {} THEN << >>
                       ELSE Trim(SubSeq(line, Min(boxes) + 1, descEnd(Min(boxes) + 1))),
       completed |-> \E i \in 1..Len(line) : line[i] \in CheckedBoxes,
       notes |-> IF opens = {} THEN << >>
                 ELSE SubSeq(line, Min(opens) + 1, Min(parens(Min(opens) + 1)) - 1)]

IsCriterionLine(line) == Trim(line) # << >> /\ Trim(line)[1] \in DashToks
HasDescription(c) == Len(c.description) > 0

parseAcceptanceCriteria(body) ==
  LET section == extractSection(body, "Acceptance Criteria")
      lines == SelectSeq(Split(section, << NL >>), IsCriterionLine)
  IN  IF section = << >> THEN << >>
      ELSE SelectSeq([i \in 1..Len(lines) |-> parseCriterion(lines[i])], HasDescription)

\* The trailing "**Decided:** date time" of a decision, Date.now() without it.
decisionTimestamp(subsection, now) ==
  LET hits == {i \in 1..Len(subsection) :
                 /\ subsection[i] \in {"**Decided:**", "**Rejected:**"}
                 /\ SkipWs(subsection, i + 1) <= Len(subsection)
                 /\ IsDate(subsection[SkipWs(subsection, i + 1)])
                 /\ SkipWs(subsection, SkipWs(subsection, i + 1) + 1) <= Len(subsection)
                 /\ IsTime(subsection[SkipWs(subsection, SkipWs(subsection, i + 1) + 1)])}
  IN  IF hits = {} THEN now
      ELSE LET d == SkipWs(subsection, Min(hits) + 1)
           IN  ParseDate(subsection[d], subsection[SkipWs(subsection, d + 1)])

parseDecision(subsection, now) ==
  [title |-> Trim(RestOfLine(subsection, 1)),
   rationale |-> Trim(FieldAfter(subsection, {"**Rationale:**"})),
   alternatives |-> CommaList(FieldAfter(subsection,
                      {"**Alternatives considered:**", "**Alternatives:**"})),
   timestamp |-> decisionTimestamp(subsection, now)]

IsDecision(d) == d.title # << >> /\ d.rationale # << >>

parseDecisions(body, sectionName, now) ==
  LET section == extractSection(body, sectionName)
      subsections == Tail(Split(section, << NL, "###", " " >>))
  IN  IF section = << >> THEN << >>
      ELSE SelectSeq([i \in 1..Len(subsections) |-> parseDecision(subsections[i], now)],
                     IsDecision)

\* The positions in a log entry's first line at which
\* /(\d{4}-\d{2}-\d{2})\s*(\d{2}:\d{2})\s*-\s*(.+)/ matches.
logHeaderHits(header) ==
  {i \in 1..Len(header) :
     /\ IsDate(header[i])
     /\ SkipWs(header, i + 1) <= Len(header)
     /\ IsTime(header[SkipWs(header, i + 1)])
     /\ SkipWs(header, SkipWs(header, i + 1) + 1) < Len(header)
     /\ header[SkipWs(header, SkipWs(header, i + 1) + 1)] = "-"}

HasLogHeader(subsection) == logHeaderHits(RestOfLine(subsection, 1)) # {}

parseLogEntry(subsection) ==
  LET header == RestOfLine(subsection, 1)
      d == Min(logHeaderHits(header))
      t == SkipWs(header, d + 1)
      dash == SkipWs(header, t + 1)
      a == SkipWs(header, dash + 1)
  IN  [timestamp |-> ParseDate(header[d], header[t]),
       action |-> IF a <= Len(header) THEN SubSeq(header, a, Len(header))
                  ELSE << header[Len(header)] >>,
       result |-> Trim(FieldAfter(subsection, {"**Result:**"})),
       toolsUsed |-> CommaList(FieldAfter(subsection, {"**Tools:**"}))]

parseExecutionLog(body) ==
  LET section == extractSection(body, "Execution Log")
      subsections == SelectSeq(Tail(Split(section, << NL, "###", " " >>)), HasLogHeader)
  IN  IF section = << >> THEN << >>
      ELSE [i \in 1..Len(subsections) |-> parseLogEntry(subsections[i])]

\* A catch branch that builds no prompt.
generateRetryPromptEmpty == << >>

generateRetryPrompt == << "The previous plan format was invalid: ", "TypeError" >>

NoPlan ==
  [status |-> "planning", goal |-> << >>, acceptanceCriteria |-> << >>,
   decisionsMade |-> << >>, decisionsRejected |-> << >>, executionLog |-> << >>,
   metadata |-> [createdAt |-> 0, updatedAt |-> 0, version |-> 0]]

deserialize(markdown, now) ==
  IF markdown = Undefined
  THEN [success |-> FALSE, value |-> NoPlan, suggestedPrompt |-> generateRetryPrompt]
  ELSE LET fm == extractFrontmatter(markdown)
       IN  [success |-> TRUE,
            value |-> [status |-> parseStatus(fm.body),
                       goal |-> parseGoal(fm.body),
                       acceptanceCriteria |-> parseAcceptanceCriteria(fm.body),
                       decisionsMade |-> parseDecisions(fm.body, "Decisions Made", now),
                       decisionsRejected |-> parseDecisions(fm.body, "Decisions Rejected", now),
                       executionLog |-> parseExecutionLog(fm.body),
                       metadata |-> parseMetadata(fm.frontmatter, now)],
            suggestedPrompt |-> << >>]

(***************************************************************************)
(* SessionManager: the plan document a new session starts with.            *)
(***************************************************************************)
emptyPlanTemplate(now) ==
  << "---", NL, "status", ":", " ", "planning", NL,
     "createdAt", ":", " ", ToString(now), NL,
     "updatedAt", ":", " ", ToString(now), NL,
     "version", ":", " ", "1", NL, "---", NL, NL,
     "#", " ", "Plan:", " ", "[Goal to be defined]", NL, NL,
     "**Status:**", " ", "planning", NL, NL,
     "##", " ", "Goal", NL, "[User will provide goal]", NL, NL,
     "##", " ", "Acceptance Criteria", NL,
     "-", " ", "[ ]", " ", "[Criteria will be added once goal is defined]", NL, NL,
     "##", " ", "Decisions Made", NL, "[No decisions yet]", NL, NL,
     "##", " ", "Decisions Rejected", NL, "[No rejected decisions yet]", NL, NL,
     "##", " ", "Execution Log", NL, "[No actions taken yet]", NL >>

(***************************************************************************)
(* PlanManager                                                             *)
(***************************************************************************)
getDefaultPlan(now) ==
  [status |-> "planning", goal |-> << >>, acceptanceCriteria |-> << >>,
   decisionsMade |-> << >>, decisionsRejected |-> << >>, executionLog |-> << >>,
   metadata |-> [createdAt |-> now, updatedAt |-> now, version |-> 1]]

\* savePlan with a guard: a file that already holds this version or a later
\* one is left as it is.
savePlanUnlessNewer(stored, plan) ==
  IF /\ stored # Undefined
     /\ parseMetadata(extractFrontmatter(stored).frontmatter, 1).version
          >= plan.metadata.version
  THEN stored
  ELSE serialize(plan)

\* fs.writeFile(planPath, serialize(plan)): the text the file holds afterwards.
savePlan(stored, plan) == serialize(plan)

\* retryWithLLM with a second corrective request after a first that failed.
retryWithLLMTwice(answers, now) ==
  LET first == deserialize(answers[1], now)
      second == deserialize(answers[2], now)
  IN  IF first.success
      THEN [plan |-> first.value, calls |-> 1, recovered |-> TRUE]
      ELSE IF second.success
      THEN [plan |-> second.value, calls |-> 2, recovered |-> TRUE]
      ELSE [plan |-> getDefaultPlan(now), calls |-> 2, recovered |-> FALSE]

\* One corrective request to the model, then the default plan.  `answers` is
\* what the model would answer to each corrective request, in order.
retryWithLLM(answers, now) ==
  LET retryResult == deserialize(answers[1], now)
  IN  IF retryResult.success
      THEN [plan |-> retryResult.value, calls |-> 1, recovered |-> TRUE]
      ELSE [plan |-> getDefaultPlan(now), calls |-> 1, recovered |-> FALSE]

loadPlan(markdown, answers, now) ==
  LET result == deserialize(markdown, now)
  IN  IF result.success
      THEN [plan |-> result.value, calls |-> 0, recovered |-> FALSE, failed |-> FALSE]
      ELSE LET retried == retryWithLLM(answers, now)
           IN  [plan |-> retried.plan, calls |-> retried.calls,
                recovered |-> retried.recovered, failed |-> TRUE]

\* The mutators of the plan the manager holds.
addLogEntry(plan, entry) == [plan EXCEPT !.executionLog = Append(@, entry)]

\* The criterion of that description takes the update; a description the
\* plan does not have yet becomes a new criterion.
updateAcceptanceCriterion(plan, update) ==
  LET hits == {i \in 1..Len(plan.acceptanceCriteria) :
                 plan.acceptanceCriteria[i].description = update.description}
  IN  IF hits = {}
      THEN [plan EXCEPT !.acceptanceCriteria =
              Append(@, [description |-> update.description,
                         completed |-> update.completed, notes |-> << >>])]
      ELSE [plan EXCEPT !.acceptanceCriteria[Min(hits)].completed = update.completed]

addDecision(plan, decision) == [plan EXCEPT !.decisionsMade = Append(@, decision)]

\* savePlan() of the plan the manager holds: the write is a new version.
commitPlan(plan, now) ==
  [plan EXCEPT !.metadata.updatedAt = now, !.metadata.version = @ + 1]

(***************************************************************************)
(* MessageHistoryManager                                                   *)
(***************************************************************************)
maxUserMessages == 5

Msg(role, content) == [role |-> role, content |-> content]

UserIndices(messages) == {i \in 1..Len(messages) : messages[i].role = "user"}

\* truncate that cuts one user message too early.
truncateKeepsOneMore(messages) ==
  LET users == UserIndices(messages)
  IN  IF Cardinality(users) > maxUserMessages + 1
      THEN LET keepFrom == CHOOSE i \in users :
                             Cardinality({j \in users : j >= i}) = maxUserMessages + 1
           IN  SubSeq(messages, keepFrom, Len(messages))
      ELSE messages

truncate(messages) ==
  LET users == UserIndices(messages)
  IN  IF Cardinality(users) > maxUserMessages
      THEN LET keepFrom == CHOOSE i \in users :
                             Cardinality({j \in users : j >= i}) = maxUserMessages
           IN  SubSeq(messages, keepFrom, Len(messages))
      ELSE messages

\* addUserMessage without the call of truncate.
addUserMessageUntrimmed(messages, content) == Append(messages, Msg("user", content))

addUserMessage(messages, content) == truncate(Append(messages, Msg("user", content)))

addAssistantMessage(messages, content) == Append(messages, Msg("assistant", content))

(***************************************************************************)
(* ToolRegistry and the parsing of model replies                           *)
(***************************************************************************)
\* The tools the registry holds.
RegisteredTools == {"t1", "t2"}

\* A call as executeBatch receives it, with what running the tool would do:
\* args is "valid", "invalid" (a required parameter is not among the keys) or
\* "missing" (the model's tool call carried no parameters object at all); run
\* is "ok", or the reason the tool's promise is rejected with.
ToolCall(tool, args, run) == [tool |-> tool, args |-> args, run |-> run]

\* ToolRegistry.validateParameters: `param.name in args` for each declared
\* parameter; with args undefined the in operator throws a TypeError.
validateParameters(call) ==
  CASE call.args = "valid" -> "valid"
    [] call.args = "missing" -> "throws"
    [] OTHER -> "invalid"

\* ToolRegistry.execute: an unknown tool and invalid parameters are returned
\* as failures; whatever the tool throws is caught and returned as a failure.
\* validateParameters is called outside the try block, so what it throws
\* rejects the promise of execute.
execute(call) ==
  IF call.tool \notin RegisteredTools
  THEN [success |-> FALSE, error |-> "not found", rejected |-> FALSE]
  ELSE IF validateParameters(call) = "throws"
  THEN [success |-> FALSE, error |-> "TypeError", rejected |-> TRUE]
  ELSE IF validateParameters(call) = "invalid"
  THEN [success |-> FALSE, error |-> "Invalid parameters", rejected |-> FALSE]
  ELSE IF call.run = "ok"
  THEN [success |-> TRUE, error |-> "none", rejected |-> FALSE]
  ELSE [success |-> FALSE, error |-> call.run, rejected |-> FALSE]

\* ToolRegistry.executeBatch: Promise.all over execute.  The promise is
\* fulfilled with the results in the order of the calls, or rejected, with
\* no results, when one of the calls is rejected.
executeBatch(calls) ==
  IF \E i \in 1..Len(calls) : execute(calls[i]).rejected
  THEN [rejected |-> TRUE, results |-> << >>]
  ELSE [rejected |-> FALSE, results |-> [i \in 1..Len(calls) |-> execute(calls[i])]]

\* A model call that rejects only when the connection is refused.
callRejectsUnlessTimeout(reply) == reply = "unreachable"

\* OllamaClient.call returns what chat returns, and chat throws for a request
\* that timed out as it does for a refused connection: the promise of call is
\* rejected and no reply reaches the loop.
callRejects(reply) == reply \in {"unreachable", "timeout"}

\* What JSON.parse makes of a reply: whether it parses, and what the object
\* holds under the keys tool_calls and response.
ReplyJson(content) ==
  CASE content = "tool_calls" ->
         [valid |-> TRUE, tool_calls |-> "array", response |-> "absent"]
    [] content = "response" ->
         [valid |-> TRUE, tool_calls |-> "absent", response |-> "string"]
    [] content = "mixed" ->
         [valid |-> TRUE, tool_calls |-> "array", response |-> "string"]
    [] content = "tool_calls_no_array" ->
         [valid |-> TRUE, tool_calls |-> "other", response |-> "absent"]
    [] content = "response_no_string" ->
         [valid |-> TRUE, tool_calls |-> "absent", response |-> "other"]
    [] content = "request_approval" ->
         [valid |-> TRUE, tool_calls |-> "absent", response |-> "absent"]
    [] OTHER ->
         [valid |-> FALSE, tool_calls |-> "absent", response |-> "absent"]

\* AgentOrchestrator.parseResponse: tool_calls is looked for first, then
\* response; anything else throws, and so does JSON.parse.
parseResponse(content) ==
  IF ~ReplyJson(content).valid THEN "error"
  ELSE IF ReplyJson(content).tool_calls = "array" THEN "tool_calls"
  ELSE IF ReplyJson(content).response = "string" THEN "response"
  ELSE "error"

\* ExecutionStage.parseResponse: a reply of no known type is handed back as
\* it is, so that none of executeTask's branches takes it.
parseStageResponse(content) ==
  IF content \in {"tool_calls", "response", "request_approval"} THEN content ELSE "malformed"

(***************************************************************************)
(* ExecutionStage                                                          *)
(***************************************************************************)
maxIterations == 10

\* The loop guard with <= for <.
taskLoopContinuesOnceMore(n) == n <= maxIterations

\* while (iterations < maxIterations)
taskLoopContinues(n) == n < maxIterations

\* A result of executeTask.  Its `iterations` field is the value of the loop
\* counter at the return, which the state holds until the next task begins;
\* executeTask sets no `critical` field, so that the field reads as false.
TaskResult(status, error, userRequested) ==
  [status |-> status, error |-> error, userRequested |-> userRequested,
   critical |-> FALSE]

\* The break conditions without the user's stop.
stopsTaskListIgnoresStop(result) == result.status = "failed" /\ result.critical

\* The break conditions with every failure taken as critical.
stopsTaskListOnAnyFailure(result) ==
  \/ result.status = "failed"
  \/ result.userRequested = "stop"

\* executeTaskList's two break conditions after a task's result is pushed.
stopsTaskList(result) ==
  \/ result.status = "failed" /\ result.critical
  \/ result.userRequested = "stop"

(***************************************************************************)
(* SummarizationStage                                                      *)
(***************************************************************************)
NoSummary ==
  [action |-> << >>, result |-> << >>, tools_used |-> << >>,
   acceptance_criteria_updates |-> << >>, decisions_made |-> << >>]

RECURSIVE updateCriteria(_, _)
updateCriteria(plan, updates) ==
  IF updates = << >> THEN plan
  ELSE updateCriteria(updateAcceptanceCriterion(plan, Head(updates)), Tail(updates))

RECURSIVE addDecisions(_, _)
addDecisions(plan, decisions) ==
  IF decisions = << >> THEN plan
  ELSE addDecisions(addDecision(plan, Head(decisions)), Tail(decisions))

\* summarizeWorkAndUpdatePlan that adds its log entry twice.
summarizeWorkLogsTwice(plan, s, now) ==
  LET entry == [timestamp |-> now, action |-> s.action,
                result |-> s.result, toolsUsed |-> s.tools_used]
      logged == addLogEntry(addLogEntry(plan, entry), entry)
  IN  commitPlan(addDecisions(updateCriteria(logged, s.acceptance_criteria_updates),
                              s.decisions_made), now)

\* The plan summarizeWorkAndUpdatePlan leaves in the manager once the summary
\* is there: the log entry, the criteria, the decisions, the save.
summarizeWorkAndUpdatePlan(plan, s, now) ==
  LET logged == addLogEntry(plan, [timestamp |-> now, action |-> s.action,
                                   result |-> s.result, toolsUsed |-> s.tools_used])
  IN  commitPlan(addDecisions(updateCriteria(logged, s.acceptance_criteria_updates),
                              s.decisions_made), now)

\* summarizeWorkAndUpdatePlan that logs before it has a summary.
planAfterSummaryEager(plan, reply, s, now) ==
  IF reply = "summary" THEN summarizeWorkAndUpdatePlan(plan, s, now)
  ELSE addLogEntry(plan, [timestamp |-> now, action |-> s.action,
                          result |-> s.result, toolsUsed |-> s.tools_used])

\* generateSummary comes first: a call that is rejected or a reply that
\* JSON.parse rejects ends summarizeWorkAndUpdatePlan before the plan is touched.
planAfterSummary(plan, reply, s, now) ==
  IF reply = "summary" THEN summarizeWorkAndUpdatePlan(plan, s, now) ELSE plan

(***************************************************************************)
(* AgentOrchestrator                                                       *)
(***************************************************************************)
\* logToolBatch that replaces the log by its entry.
logToolBatchOverwrites(plan, batch, now) ==
  [plan EXCEPT !.executionLog =
     << [timestamp |-> now, action |-> << "Executed tools" >>,
         result |-> IF \A i \in 1..Len(batch) : batch[i].success
                    THEN << "Success" >> ELSE << "Failure" >>,
         toolsUsed |-> << << "t1" >> >>] >>]

\* The entry processMessage adds to the execution log after a tool batch.
logToolBatch(plan, batch, now) ==
  addLogEntry(plan,
    [timestamp |-> now, action |-> << "Executed tools" >>,
     result |-> IF \A i \in 1..Len(batch) : batch[i].success
                THEN << "Success" >> ELSE << "Failure" >>,
     toolsUsed |-> << << "t1" >> >>])

(***************************************************************************)
(* The orchestration loop.                                                 *)
(*                                                                         *)
(* orchestrator   which loop the session was built with: "stages" is the   *)
(*                Planning / Execution / Summarization workflow, "agent"   *)
(*                is AgentOrchestrator.processMessage                      *)
(* phase, pc      where the loop is                                        *)
(* plan           the plan the PlanManager holds                           *)
(* stored         the text of plan_doc.md                                  *)
(* history        MessageHistoryManager.messages                           *)
(* tasks, cursor  the length of the task list and the task at work         *)
(* iterations     the loop counter of executeTask / processMessage         *)
(* results        ExecutionResult.results                                  *)
(* outcome        how the last request ended                               *)
(* loaded         what loadPlan returned and how                           *)
(* summary        the summary the last Summarization applied               *)
(* The remaining variables record history for the properties: the plan at  *)
(* the start of the request, the phases visited, the model calls made for  *)
(* the task at work, whether all its replies were malformed, whether the   *)
(* user asked to cancel, which backend the loop's last step found          *)
(* unreachable, and which call of the loop's last step timed out.          *)
(***************************************************************************)
VARIABLES orchestrator, phase, pc, plan, stored, now, history, tasks, cursor,
          iterations, results, outcome, requests, loaded, summary,
          planAtSubmit, trail, calls, onlyMalformed, cancelRequested, unreachable, timedOut,
          rt, store, console, toolBatch, chat, parsed, tui, ctx, sliced, simple

loopVars == << orchestrator, phase, pc, plan, stored, now, history, tasks, cursor,
               iterations, results, outcome, requests, loaded, summary,
               planAtSubmit, trail, calls, onlyMalformed, cancelRequested, unreachable, timedOut >>

vars == << loopVars, rt, store, console, toolBatch, chat, parsed, tui, ctx, sliced, simple >>

NotLoaded ==
  [failed |-> FALSE, calls |-> 0, recovered |-> FALSE, aborted |-> FALSE,
   done |-> FALSE, plan |-> NoPlan]

RtIdle ==
  [stage |-> "idle", plan |-> NoPlan, markdown |-> << >>,
   result |-> [success |-> FALSE, value |-> NoPlan, suggestedPrompt |-> << >>]]

StoreIdle == [file |-> << >>, sessions |-> << >>, saves |-> << >>]

\* ConsoleInterface after its constructor: isProcessing = false, nothing read.
ConsoleIdle ==
  [lines |-> << >>, exited |-> FALSE, isProcessing |-> FALSE, inFlight |-> {},
   requested |-> [i \in 1..(MaxMessages + 1) |-> 0], responded |-> << >>, dropped |-> {}]

BatchIdle == [calls |-> << >>, settled |-> {}, outcome |-> "idle", results |-> << >>]

\* OllamaClient before its first chat call.
ChatIdle == [stage |-> "idle", posts |-> << >>, results |-> << >>]

\* No reply has been handed to parseResponse yet.
ParsedIdle == [contents |-> << >>, types |-> << >>]

\* createInitialState: no messages, empty input, scrollOffset 0.
TuiIdle ==
  [messages |-> << >>, currentInput |-> "", scrollOffset |-> 0, terminalHeight |-> 24,
   localInput |-> "", added |-> 0]

\* No loop has been entered and no call is awaited.
CtxIdle ==
  [loop |-> "stages", pc |-> "idle", tasks |-> 0, task |-> 0, iterations |-> 0,
   plan |-> NoPlan, history |-> << >>, sent |-> << >>]

\* sliceMessages has not been called.
SlicedIdle == [messages |-> << >>, visibleLines |-> 0, scrollOffset |-> 0, done |-> FALSE,
               result |-> << >>]

\* A SimpleOrchestrator without a system prompt, before its first message.
SimpleIdle == [systemPrompt |-> "", pc |-> "idle", inputs |-> << >>, requests |-> << >>,
               replies |-> << >>, results |-> << >>]

OthersIdle ==
  console = ConsoleIdle /\ toolBatch = BatchIdle /\ chat = ChatIdle /\ parsed = ParsedIdle /\ tui = TuiIdle /\ ctx = CtxIdle /\ sliced = SlicedIdle /\ simple = SimpleIdle

InitLoop ==
  /\ orchestrator \in {"stages", "agent"}
  /\ phase = "Idle"
  /\ pc = "idle"
  /\ now = 1
  /\ plan = getDefaultPlan(1)
  /\ stored = emptyPlanTemplate(1)
  /\ history = << >>
  /\ tasks = 0
  /\ cursor = 0
  /\ iterations = 0
  /\ results = << >>
  /\ outcome = "none"
  /\ requests = 0
  /\ loaded = NotLoaded
  /\ summary = NoSummary
  /\ planAtSubmit = getDefaultPlan(1)
  /\ trail = << "Idle" >>
  /\ calls = 0
  /\ onlyMalformed = FALSE
  /\ cancelRequested = FALSE
  /\ unreachable = "none"
  /\ timedOut = "none"

Init == InitLoop /\ rt = RtIdle /\ store = StoreIdle /\ OthersIdle

\* A rejected promise ends the request: the loop is back at Idle.
Abort(err) ==
  /\ phase' = "Idle"
  /\ pc' = "idle"
  /\ outcome' = err
  /\ trail' = Append(trail, "Idle")

\* The use of the request's start by both loops.
BeginRequest ==
  /\ phase = "Idle"
  /\ requests < MaxRequests
  /\ now < MaxTime
  /\ plan.metadata.version < MaxNumber
  /\ requests' = requests + 1
  /\ now' = now + 1
  /\ planAtSubmit' = plan
  /\ outcome' = "none"
  /\ results' = << >>
  /\ summary' = NoSummary
  /\ cancelRequested' = FALSE
  /\ unreachable' = "none"
  /\ timedOut' = "none"
  /\ iterations' = 0
  /\ calls' = 0
  /\ onlyMalformed' = FALSE
  /\ tasks' = 0
  /\ cursor' = 0
  /\ loaded' = NotLoaded
  /\ UNCHANGED << orchestrator, plan, stored, rt, store, console, toolBatch, chat, parsed, tui, ctx, sliced, simple >>

\* A request that goes to the execution stage without a task list.
SubmitRequestSkipsPlanning ==
  /\ orchestrator = "stages"
  /\ BeginRequest
  /\ phase' = "Executing"
  /\ pc' = "next"
  /\ trail' = << "Executing" >>
  /\ UNCHANGED history

\* A user request enters the three-stage workflow.
SubmitRequest ==
  /\ orchestrator = "stages"
  /\ BeginRequest
  /\ phase' = "Planning"
  /\ pc' = "load"
  /\ trail' = << "Planning" >>
  /\ UNCHANGED history

\* PlanningStage.generateTaskList, up to the return of loadPlan.
PlanLoad ==
  /\ phase = "Planning" /\ pc = "load"
  /\ \E first \in {Undefined, emptyPlanTemplate(now)},
        second \in {Undefined, emptyPlanTemplate(now)},
        up \in BOOLEAN :
       \E r \in {loadPlan(stored, << first, second >>, now)} :
         IF r.failed /\ ~up
         THEN /\ Abort("BackendUnavailable")
              /\ unreachable' = "model"
              /\ timedOut' = "none"
              /\ loaded' = [failed |-> TRUE, calls |-> 1, recovered |-> FALSE,
                            aborted |-> TRUE, done |-> TRUE, plan |-> NoPlan]
              /\ UNCHANGED stored
         ELSE /\ loaded' = [failed |-> r.failed, calls |-> r.calls,
                            recovered |-> r.recovered, aborted |-> FALSE,
                            done |-> TRUE, plan |-> r.plan]
              /\ stored' = IF r.recovered THEN savePlan(stored, r.plan) ELSE stored
              /\ pc' = "tasks"
              /\ UNCHANGED << phase, outcome, trail, unreachable, timedOut >>
  /\ UNCHANGED << orchestrator, plan, now, history, tasks, cursor, iterations, results,
                  requests, summary, planAtSubmit, calls, onlyMalformed,
                  cancelRequested, rt, store, console, toolBatch, chat, parsed, tui, ctx, sliced, simple >>

\* PlanningStage.generateTaskList, the planning call and JSON.parse of its reply.
PlanTasks ==
  /\ phase = "Planning" /\ pc = "tasks"
  /\ \E reply \in {"unreachable", "invalid", "task_list"}, n \in 0..MaxTasks :
       /\ loaded' = NotLoaded
       /\ CASE reply = "unreachable" ->
                 /\ Abort("BackendUnavailable")
                 /\ unreachable' = "model"
                 /\ timedOut' = "none"
                 /\ UNCHANGED << tasks, cursor >>
            [] reply = "invalid" ->
                 /\ Abort("SyntaxError")
                 /\ UNCHANGED << tasks, cursor, unreachable, timedOut >>
            [] OTHER ->
                 /\ tasks' = n
                 /\ cursor' = 0
                 /\ phase' = "Executing"
                 /\ pc' = "next"
                 /\ trail' = Append(trail, "Executing")
                 /\ UNCHANGED << outcome, unreachable, timedOut >>
  /\ UNCHANGED << orchestrator, plan, stored, now, history, iterations, results,
                  requests, summary, planAtSubmit, calls, onlyMalformed,
                  cancelRequested, rt, store, console, toolBatch, chat, parsed, tui, ctx, sliced, simple >>

\* executeTaskList whose for loop steps over two tasks at a time.
ExecNextSkipsTask ==
  /\ orchestrator = "stages" /\ phase = "Executing" /\ pc = "next"
  /\ IF \/ results # << >> /\ stopsTaskList(results[Len(results)])
        \/ cursor >= tasks
     THEN /\ phase' = "Summarizing"
          /\ pc' = "summary"
          /\ trail' = Append(trail, "Summarizing")
          /\ UNCHANGED << cursor, iterations, calls, onlyMalformed >>
     ELSE /\ cursor' = cursor + 2
          /\ iterations' = 0
          /\ calls' = 0
          /\ onlyMalformed' = TRUE
          /\ pc' = "call"
          /\ UNCHANGED << phase, trail >>
  /\ UNCHANGED << orchestrator, plan, stored, now, history, tasks, results, outcome,
                  requests, loaded, summary, planAtSubmit, cancelRequested, unreachable, timedOut,
                  rt, store, console, toolBatch, chat, parsed, tui, ctx, sliced, simple >>

\* ExecutionStage.executeTaskList: the head of the for loop and the breaks
\* after a task's result.
ExecNext ==
  /\ orchestrator = "stages" /\ phase = "Executing" /\ pc = "next"
  /\ IF \/ results # << >> /\ stopsTaskList(results[Len(results)])
        \/ cursor >= tasks
     THEN /\ phase' = "Summarizing"
          /\ pc' = "summary"
          /\ trail' = Append(trail, "Summarizing")
          /\ UNCHANGED << cursor, iterations, calls, onlyMalformed >>
     ELSE /\ cursor' = cursor + 1
          /\ iterations' = 0
          /\ calls' = 0
          /\ onlyMalformed' = TRUE
          /\ pc' = "call"
          /\ UNCHANGED << phase, trail >>
  /\ UNCHANGED << orchestrator, plan, stored, now, history, tasks, results, outcome,
                  requests, loaded, summary, planAtSubmit, cancelRequested, unreachable, timedOut,
                  rt, store, console, toolBatch, chat, parsed, tui, ctx, sliced, simple >>

\* ExecutionStage.executeTask: one pass of the while loop up to the branch on
\* the parsed reply.
ExecCall ==
  /\ orchestrator = "stages" /\ phase = "Executing" /\ pc = "call"
  /\ taskLoopContinues(iterations)
  /\ iterations' = iterations + 1
  /\ \E reply \in {"unreachable", "timeout", "tool_calls", "response",
                    "request_approval", "garbage"} :
       IF callRejects(reply)
       THEN /\ Abort(IF reply = "timeout" THEN "Timeout" ELSE "BackendUnavailable")
            /\ unreachable' = IF reply = "unreachable" THEN "model" ELSE "none"
            /\ timedOut' = IF reply = "timeout" THEN "model" ELSE "none"
            /\ UNCHANGED << history, results, calls, onlyMalformed >>
       ELSE /\ calls' = calls + 1
            /\ history' = addAssistantMessage(addUserMessage(history, "task"), "reply")
            /\ onlyMalformed' = (onlyMalformed /\ parseStageResponse(reply) = "malformed")
            /\ unreachable' = "none"
            /\ timedOut' = IF reply = "timeout" THEN "model" ELSE "none"
            /\ CASE parseStageResponse(reply) = "tool_calls" ->
                      pc' = "tools" /\ UNCHANGED results
                 [] parseStageResponse(reply) = "response" ->
                      /\ results' = Append(results,
                                           TaskResult("success", "none", "none"))
                      /\ pc' = "next"
                 [] parseStageResponse(reply) = "request_approval" ->
                      pc' = "approval" /\ UNCHANGED results
                 [] OTHER ->
                      pc' = "call" /\ UNCHANGED results
            /\ UNCHANGED << phase, outcome, trail >>
  /\ UNCHANGED << orchestrator, plan, stored, now, tasks, cursor, requests, loaded,
                  summary, planAtSubmit, cancelRequested, rt, store, console, toolBatch, chat, parsed, tui, ctx, sliced, simple >>

\* executeTask that runs the tool batch again instead of calling the model.
ExecToolsAgain ==
  /\ orchestrator = "stages" /\ phase = "Executing" /\ pc = "tools"
  /\ \E run \in {"ok", "unreachable", "timeout"} :
       LET batch == executeBatch(<< ToolCall("t1", "valid", run) >>).results
       IN  /\ history' = addUserMessage(history, "tool_results")
           /\ unreachable' = IF batch[1].error = "unreachable" THEN "tool" ELSE "none"
           /\ timedOut' = IF batch[1].error = "timeout" THEN "tool" ELSE "none"
  /\ pc' = "tools"
  /\ UNCHANGED << orchestrator, phase, plan, stored, now, tasks, cursor, iterations,
                  results, outcome, requests, loaded, summary, planAtSubmit, trail,
                  calls, onlyMalformed, cancelRequested, rt, store, console, toolBatch, chat, parsed, tui, ctx, sliced, simple >>

\* ExecutionStage.executeTask: the tool batch of a tool_calls reply.
ExecTools ==
  /\ orchestrator = "stages" /\ phase = "Executing" /\ pc = "tools"
  /\ \E run \in {"ok", "unreachable", "timeout"} :
       LET batch == executeBatch(<< ToolCall("t1", "valid", run) >>).results
       IN  /\ history' = addUserMessage(history, "tool_results")
           /\ unreachable' = IF batch[1].error = "unreachable" THEN "tool" ELSE "none"
           /\ timedOut' = IF batch[1].error = "timeout" THEN "tool" ELSE "none"
  /\ pc' = "call"
  /\ UNCHANGED << orchestrator, phase, plan, stored, now, tasks, cursor, iterations,
                  results, outcome, requests, loaded, summary, planAtSubmit, trail,
                  calls, onlyMalformed, cancelRequested, rt, store, console, toolBatch, chat, parsed, tui, ctx, sliced, simple >>

\* ExecutionStage.executeTask: the user's answer to a request_approval reply.
ExecApproval ==
  /\ orchestrator = "stages" /\ phase = "Executing" /\ pc = "approval"
  /\ \E approved \in BOOLEAN :
       IF approved
       THEN pc' = "call" /\ UNCHANGED results
       ELSE /\ results' = Append(results, TaskResult("failed", "User rejected", "stop"))
            /\ pc' = "next"
  /\ UNCHANGED << orchestrator, phase, plan, stored, now, history, tasks, cursor,
                  iterations, outcome, requests, loaded, summary, planAtSubmit, trail,
                  calls, onlyMalformed, cancelRequested, unreachable, timedOut, rt, store, console, toolBatch, chat, parsed, tui, ctx, sliced, simple >>

\* ExecutionStage.executeTask: the return after the while loop.
ExecCapReached ==
  /\ orchestrator = "stages" /\ phase = "Executing" /\ pc = "call"
  /\ ~taskLoopContinues(iterations)
  /\ results' = Append(results,
                       TaskResult("failed", "Max iterations reached", "none"))
  /\ pc' = "next"
  /\ unreachable' = "none"
  /\ timedOut' = "none"
  /\ UNCHANGED << orchestrator, phase, plan, stored, now, history, tasks, cursor,
                  iterations, outcome, requests, loaded, summary, planAtSubmit, trail,
                  calls, onlyMalformed, cancelRequested, rt, store, console, toolBatch, chat, parsed, tui, ctx, sliced, simple >>

\* What the summarizer model may hand back for the work of a request.
Summaries(t) ==
  {[action |-> << "a1" >>, result |-> << "ok" >>, tools_used |-> << << "t1" >> >>,
    acceptance_criteria_updates |-> << >>, decisions_made |-> << >>],
   [action |-> << "a1" >>, result |-> << "failed" >>, tools_used |-> << << "t1" >> >>,
    acceptance_criteria_updates |-> << >>, decisions_made |-> << >>],
   [action |-> << "a1" >>, result |-> << "ok" >>, tools_used |-> << << "t1" >> >>,
    acceptance_criteria_updates |-> << [description |-> << "c1" >>, completed |-> TRUE] >>,
    decisions_made |-> << [title |-> << "d1" >>, rationale |-> << "r1" >>,
                           alternatives |-> << >>, timestamp |-> t] >>]}

\* showSummaryToUser and the correction of the summary by its answer.
showSummaryToUser(s, answer) ==
  IF answer = "edit" THEN [s EXCEPT !.action = << "a2" >>] ELSE s

\* SummarizationStage.summarizeWorkAndUpdatePlan
Summarize ==
  /\ phase = "Summarizing"
  /\ \E reply \in {"unreachable", "invalid", "summary"}, s \in Summaries(now),
        answer \in {"yes", "edit"} :
       /\ plan' = planAfterSummary(plan, reply, showSummaryToUser(s, answer), now)
       /\ CASE reply = "unreachable" ->
                 /\ Abort("BackendUnavailable")
                 /\ unreachable' = "model"
                 /\ timedOut' = "none"
                 /\ UNCHANGED << stored, summary >>
            [] reply = "invalid" ->
                 /\ Abort("SyntaxError")
                 /\ UNCHANGED << stored, summary, unreachable, timedOut >>
            [] OTHER ->
                 /\ summary' = showSummaryToUser(s, answer)
                 /\ stored' = savePlan(stored, plan')
                 /\ phase' = "Idle"
                 /\ pc' = "idle"
                 /\ outcome' = "completed"
                 /\ trail' = Append(trail, "Idle")
                 /\ UNCHANGED << unreachable, timedOut >>
  /\ cursor' = 0
  /\ calls' = 0
  /\ onlyMalformed' = FALSE
  /\ cancelRequested' = FALSE
  /\ UNCHANGED << orchestrator, now, history, tasks, iterations, results,
                  requests, loaded, planAtSubmit, rt, store, console, toolBatch, chat, parsed, tui, ctx, sliced, simple >>

\* AgentOrchestrator.processMessage, up to the while loop.
ProcessMessage ==
  /\ orchestrator = "agent"
  /\ BeginRequest
  /\ history' = addUserMessage(history, "request")
  /\ phase' = "Executing"
  /\ pc' = "call"
  /\ trail' = << "Executing" >>

\* while (iterations < maxIterations), maxIterations = config.maxIterations
agentLoopContinues(n) == n < ConfigMaxIterations

\* AgentOrchestrator.processMessage: one pass of the while loop up to the
\* branch on the parsed reply.
AgentCall ==
  /\ orchestrator = "agent" /\ phase = "Executing" /\ pc = "call"
  /\ agentLoopContinues(iterations)
  /\ iterations' = iterations + 1
  /\ \E reply \in {"unreachable", "timeout", "tool_calls", "response", "mixed",
                    "garbage"} :
       IF callRejects(reply)
       THEN /\ Abort(IF reply = "timeout" THEN "Timeout" ELSE "BackendUnavailable")
            /\ unreachable' = IF reply = "unreachable" THEN "model" ELSE "none"
            /\ timedOut' = IF reply = "timeout" THEN "model" ELSE "none"
            /\ UNCHANGED << history, calls, onlyMalformed >>
       ELSE /\ calls' = calls + 1
            /\ history' = addAssistantMessage(history, "reply")
            /\ onlyMalformed' = FALSE
            /\ CASE parseResponse(reply) = "tool_calls" ->
                      pc' = "tools" /\ UNCHANGED << phase, outcome, trail >>
                 [] parseResponse(reply) = "response" ->
                      /\ phase' = "Idle"
                      /\ pc' = "idle"
                      /\ outcome' = "completed"
                      /\ trail' = Append(trail, "Idle")
                 [] OTHER -> Abort("InvalidFormat")
            /\ unreachable' = "none"
            /\ timedOut' = IF reply = "timeout" THEN "model" ELSE "none"
  /\ UNCHANGED << orchestrator, plan, stored, now, tasks, cursor, results, requests,
                  loaded, summary, planAtSubmit, cancelRequested, rt, store, console, toolBatch, chat, parsed, tui, ctx, sliced, simple >>

\* AgentOrchestrator.processMessage: the tool batch of a tool_calls reply,
\* its results in the history and its entry in the execution log.
AgentTools ==
  /\ orchestrator = "agent" /\ phase = "Executing" /\ pc = "tools"
  /\ \E run \in {"ok", "unreachable", "timeout"} :
       LET batch == executeBatch(<< ToolCall("t1", "valid", run) >>).results
       IN  /\ history' = addUserMessage(history, "tool_results")
           /\ plan' = logToolBatch(plan, batch, now)
           /\ unreachable' = IF batch[1].error = "unreachable" THEN "tool" ELSE "none"
           /\ timedOut' = IF batch[1].error = "timeout" THEN "tool" ELSE "none"
  /\ pc' = "call"
  /\ UNCHANGED << orchestrator, phase, stored, now, tasks, cursor, iterations, results,
                  outcome, requests, loaded, summary, planAtSubmit, trail, calls,
                  onlyMalformed, cancelRequested, rt, store, console, toolBatch, chat, parsed, tui, ctx, sliced, simple >>

\* AgentOrchestrator.processMessage: the throw after the while loop.
AgentCapReached ==
  /\ orchestrator = "agent" /\ phase = "Executing" /\ pc = "call"
  /\ ~agentLoopContinues(iterations)
  /\ Abort("MaxIterations")
  /\ unreachable' = "none"
  /\ timedOut' = "none"
  /\ UNCHANGED << orchestrator, plan, stored, now, history, tasks, cursor, iterations,
                  results, requests, loaded, summary, planAtSubmit, calls,
                  onlyMalformed, cancelRequested, rt, store, console, toolBatch, chat, parsed, tui, ctx, sliced, simple >>

\* The user asks to cancel while the loop is executing.
UserCancel ==
  /\ phase = "Executing" /\ pc = "tools"
  /\ ~cancelRequested
  /\ cancelRequested' = TRUE
  /\ UNCHANGED << orchestrator, phase, pc, plan, stored, now, history, tasks, cursor,
                  iterations, results, outcome, requests, loaded, summary, planAtSubmit,
                  trail, calls, onlyMalformed, unreachable, timedOut, rt, store, console, toolBatch, chat, parsed, tui, ctx, sliced, simple >>

\* Between two requests the plan file comes to hold nothing that reads as text.
StoreCorrupted ==
  /\ orchestrator = "stages" /\ phase = "Idle"
  /\ requests < MaxRequests
  /\ stored # Undefined
  /\ stored' = Undefined
  /\ UNCHANGED << orchestrator, phase, pc, plan, now, history, tasks, cursor,
                  iterations, results, outcome, requests, loaded, summary, planAtSubmit,
                  trail, calls, onlyMalformed, cancelRequested, unreachable, timedOut, rt, store, console, toolBatch, chat, parsed, tui, ctx, sliced, simple >>

Next ==
  \/ SubmitRequest
  \/ PlanLoad
  \/ PlanTasks
  \/ ExecNext
  \/ ExecCall
  \/ ExecTools
  \/ ExecApproval
  \/ ExecCapReached
  \/ Summarize
  \/ ProcessMessage
  \/ AgentCall
  \/ AgentTools
  \/ AgentCapReached
  \/ UserCancel
  \/ StoreCorrupted

Spec == Init /\ [][Next]_vars

\* A backend that answers every call: each step that waits only for the
\* model, a tool or the plan file is taken once it can be.  The steps of the
\* user (a new request, a cancellation, the answer to an approval question)
\* are under no such obligation; the confirmation of the summary is part of
\* the Summarize step.  For PlanLoad the condition is written on the states
\* in which it can be taken, which it always leaves.
BackendAnswers ==
  /\ []<>(~(phase = "Planning" /\ pc = "load")) /\ WF_vars(PlanTasks)
  /\ WF_vars(ExecNext) /\ WF_vars(ExecCall) /\ WF_vars(ExecTools) /\ WF_vars(ExecCapReached)
  /\ WF_vars(Summarize)
  /\ WF_vars(AgentCall) /\ WF_vars(AgentTools) /\ WF_vars(AgentCapReached)

\* The steps of Next for a session of at most MaxFairRequests requests.
NextFair ==
  \/ SubmitRequest /\ requests' <= MaxFairRequests
  \/ PlanLoad
  \/ PlanTasks
  \/ ExecNext
  \/ ExecCall
  \/ ExecTools
  \/ ExecApproval
  \/ ExecCapReached
  \/ Summarize
  \/ ProcessMessage /\ requests' <= MaxFairRequests
  \/ AgentCall
  \/ AgentTools
  \/ AgentCapReached
  \/ UserCancel
  \/ StoreCorrupted

SpecFair == Init /\ [][NextFair]_vars /\ BackendAnswers

(***************************************************************************)
(* The round trip of a plan through PlanSerializer and PlanDeserializer.   *)
(* rt.stage says how far the round trip of rt.plan has come.               *)
(***************************************************************************)
SeqsUpTo(S, n) == UNION {[1..k -> S] : k \in 0..n}

RtCriteria ==
  {[description |-> << "c1" >>, completed |-> FALSE, notes |-> << >>],
   [description |-> << "c2" >>, completed |-> TRUE, notes |-> << "n1" >>]}

RtDecisions ==
  {[title |-> << "d1" >>, rationale |-> << "r1" >>, alternatives |-> << >>,
    timestamp |-> TicksPerMinute],
   [title |-> << "d2" >>, rationale |-> << "r2" >>,
    alternatives |-> << << "x1" >>, << "x2" >> >>, timestamp |-> TicksPerMinute + 1]}

RtLogEntries ==
  {[timestamp |-> TicksPerMinute, action |-> << "a1" >>, result |-> << "ok" >>,
    toolsUsed |-> << << "t1" >> >>],
   [timestamp |-> TicksPerMinute + 1, action |-> << "a2" >>, result |-> << "ok" >>,
    toolsUsed |-> << >>]}

\* The plans whose round trip is tried: a planning plan may have no goal, any
\* other plan has one.
RtPlans ==
  {p \in [status : {"planning", "in_progress"},
          goal : {<< >>, << "g1" >>},
          acceptanceCriteria : SeqsUpTo(RtCriteria, MaxItems),
          decisionsMade : SeqsUpTo(RtDecisions, MaxItems),
          decisionsRejected : SeqsUpTo(RtDecisions, 1),
          executionLog : SeqsUpTo(RtLogEntries, MaxItems),
          metadata : [createdAt : {1}, updatedAt : {2}, version : {1, 2}]] :
     p.status # "planning" => p.goal # << >>}

NoResult == [success |-> FALSE, value |-> NoPlan, suggestedPrompt |-> << >>]

InitRoundTrip ==
  /\ InitLoop
  /\ OthersIdle
  /\ orchestrator = "stages"
  /\ store = StoreIdle
  /\ \E p \in RtPlans :
       rt = [stage |-> "plan", plan |-> p, markdown |-> << >>, result |-> NoResult]

\* PlanSerializer.serialize
RtSerialize ==
  /\ rt.stage = "plan"
  /\ rt' = [rt EXCEPT !.stage = "markdown", !.markdown = serialize(rt.plan)]
  /\ UNCHANGED << loopVars, store, console, toolBatch, chat, parsed, tui, ctx, sliced, simple >>

\* PlanDeserializer.deserialize, at a time later than every timestamp of the plan
RtDeserialize ==
  /\ rt.stage = "markdown"
  /\ rt' = [rt EXCEPT !.stage = "parsed", !.result = deserialize(rt.markdown, MaxTime)]
  /\ UNCHANGED << loopVars, store, console, toolBatch, chat, parsed, tui, ctx, sliced, simple >>

NextRoundTrip == RtSerialize \/ RtDeserialize

SpecRoundTrip == InitRoundTrip /\ [][NextRoundTrip]_vars

(***************************************************************************)
(* PlanDeserializer on input that is no plan document: the empty string, a *)
(* single line break, short runs of tokens in no order, and a value that   *)
(* is not a string.                                                        *)
(***************************************************************************)
JunkTokens == {"x", " ", NL, "##", "-", "[x]", "---", "**Status:**", "failed"}

JunkTexts == SeqsUpTo(JunkTokens, MaxJunk) \cup {Undefined}

InitParse ==
  /\ InitLoop
  /\ OthersIdle
  /\ orchestrator = "stages"
  /\ store = StoreIdle
  /\ \E text \in JunkTexts :
       rt = [stage |-> "markdown", plan |-> NoPlan, markdown |-> text, result |-> NoResult]

NextParse == RtDeserialize

SpecParse == InitParse /\ [][NextParse]_vars

(***************************************************************************)
(* Two writers of one plan file: two agent processes opened on the same    *)
(* session directory.  store.file is plan_doc.md, store.sessions[w] is the *)
(* plan writer w holds and the version it last read or wrote, store.saves  *)
(* is the list of the writes made so far.                                  *)
(***************************************************************************)
Writers == {1, 2}

ClosedSession == [open |-> FALSE, plan |-> NoPlan, expectedVersion |-> 0, written |-> 0]

InitStore ==
  /\ InitLoop
  /\ OthersIdle
  /\ orchestrator = "stages"
  /\ rt = RtIdle
  /\ store = [file |-> emptyPlanTemplate(1),
              sessions |-> << ClosedSession, ClosedSession >>,
              saves |-> << >>]

\* PlanManager.loadPlan by writer w
StoreOpen(w) ==
  /\ ~store.sessions[w].open
  /\ \E r \in {loadPlan(store.file, << Undefined, Undefined >>, 1)} :
       store' = [store EXCEPT !.sessions[w] =
                   [open |-> TRUE, plan |-> r.plan,
                    expectedVersion |-> r.plan.metadata.version, written |-> 0]]
  /\ UNCHANGED << loopVars, rt, console, toolBatch, chat, parsed, tui, ctx, sliced, simple >>

\* The Summarization write of writer w: the log entry, then savePlan.
StoreSummarize(w) ==
  /\ store.sessions[w].open
  /\ store.sessions[w].written < MaxItems
  /\ store.sessions[w].plan.metadata.version < MaxNumber
  /\ \E res \in {<< "ok" >>, << "failed" >>} :
       \E p \in {commitPlan(addLogEntry(store.sessions[w].plan,
                             [timestamp |-> TicksPerMinute, action |-> << "a1" >>,
                              result |-> res, toolsUsed |-> << << "t1" >> >>]), 2)} :
         store' = [store EXCEPT
                     !.file = savePlan(store.file, p),
                     !.sessions[w] = [open |-> TRUE, plan |-> p,
                                      expectedVersion |-> p.metadata.version,
                                      written |-> @.written + 1],
                     !.saves = Append(@, [writer |-> w,
                                          expectedVersion |-> store.sessions[w].expectedVersion,
                                          outcome |-> "ok"])]
  /\ UNCHANGED << loopVars, rt, console, toolBatch, chat, parsed, tui, ctx, sliced, simple >>

NextStore == \E w \in Writers : StoreOpen(w) \/ StoreSummarize(w)

SpecStore == InitStore /\ [][NextStore]_vars

(***************************************************************************)
(* The console: ConsoleInterface.handleInput with the onInput of cli.ts    *)
(* and SimpleOrchestrator.processMessage behind it.  console.lines are the *)
(* lines read so far, a line's number is its place in them;                *)
(* console.inFlight are the lines whose chat request is out,               *)
(* console.requested counts the chat requests made for each line,          *)
(* console.responded lists the lines answered, console.dropped the lines   *)
(* turned away.                                                            *)
(***************************************************************************)
\* A guard that lets a line through while another is processed.
handleInputAcceptsWhileBusy(isProcessing) == TRUE

\* handleInput: if (this.isProcessing) { "Still processing previous
\* message..."; return }
handleInputAccepts(isProcessing) == ~isProcessing

InitConsole ==
  /\ InitLoop
  /\ orchestrator = "stages"
  /\ rt = RtIdle /\ store = StoreIdle
  /\ console = ConsoleIdle /\ toolBatch = BatchIdle /\ chat = ChatIdle /\ parsed = ParsedIdle /\ tui = TuiIdle /\ ctx = CtxIdle /\ sliced = SlicedIdle /\ simple = SimpleIdle

\* handleInput that looks at isProcessing before it looks for /exit.
ConsoleLineBusyBeforeExit ==
  /\ ~console.exited
  /\ Len(console.lines) < MaxMessages
  /\ \E line \in {"text", "empty", "/exit"} :
       LET id == Len(console.lines) + 1
       IN  console' =
             IF line = "empty"
             THEN [console EXCEPT !.lines = Append(@, line)]
             ELSE IF ~handleInputAccepts(console.isProcessing)
             THEN [console EXCEPT !.lines = Append(@, line), !.dropped = @ \cup {id}]
             ELSE IF line = "/exit"
             THEN [console EXCEPT !.lines = Append(@, line), !.exited = TRUE]
             ELSE [console EXCEPT !.lines = Append(@, line),
                                  !.isProcessing = TRUE,
                                  !.inFlight = @ \cup {id},
                                  !.requested[id] = @ + 1]
  /\ UNCHANGED << loopVars, rt, store, toolBatch, chat, parsed, tui, ctx, sliced, simple >>

\* readline's line event: handleInput up to the await of onInput, and onInput
\* and processMessage up to the await of the chat request.  An empty line is
\* passed over, /exit ends the process whatever is in flight.
ConsoleLine ==
  /\ ~console.exited
  /\ Len(console.lines) < MaxMessages
  /\ \E line \in {"text", "empty", "/exit"} :
       LET id == Len(console.lines) + 1
       IN  console' =
             IF line = "empty"
             THEN [console EXCEPT !.lines = Append(@, line)]
             ELSE IF line = "/exit"
             THEN [console EXCEPT !.lines = Append(@, line), !.exited = TRUE]
             ELSE IF ~handleInputAccepts(console.isProcessing)
             THEN [console EXCEPT !.lines = Append(@, line), !.dropped = @ \cup {id}]
             ELSE [console EXCEPT !.lines = Append(@, line),
                                  !.isProcessing = TRUE,
                                  !.inFlight = @ \cup {id},
                                  !.requested[id] = @ + 1]
  /\ UNCHANGED << loopVars, rt, store, toolBatch, chat, parsed, tui, ctx, sliced, simple >>

\* handleInput that leaves isProcessing set when the request ended in an error.
ChatReturnsStaysBusyOnError ==
  /\ ~console.exited
  /\ \E id \in console.inFlight, kind \in {"agent", "error"} :
       console' = [console EXCEPT !.inFlight = @ \ {id},
                                  !.responded = Append(@, [id |-> id, kind |-> kind]),
                                  !.isProcessing = (kind = "error")]
  /\ UNCHANGED << loopVars, rt, store, toolBatch, chat, parsed, tui, ctx, sliced, simple >>

\* The chat request returns its Result: processMessage returns, onInput shows
\* the agent's message or the error, handleInput clears isProcessing.
ChatReturns ==
  /\ ~console.exited
  /\ \E id \in console.inFlight, kind \in {"agent", "error"} :
       console' = [console EXCEPT !.inFlight = @ \ {id},
                                  !.responded = Append(@, [id |-> id, kind |-> kind]),
                                  !.isProcessing = FALSE]
  /\ UNCHANGED << loopVars, rt, store, toolBatch, chat, parsed, tui, ctx, sliced, simple >>

NextConsole == ConsoleLine \/ ChatReturns

SpecConsole == InitConsole /\ [][NextConsole]_vars

\* The promise of onInput rejects (a handler that throws, as a failing log
\* call makes it): the await in handleInput throws, the statements after it
\* are skipped, and the catch of the line handler prints the error and
\* prompts.  isProcessing keeps the value it was given before the await.
OnInputRejects ==
  /\ ~console.exited
  /\ \E id \in console.inFlight :
       console' = [console EXCEPT !.inFlight = @ \ {id},
                                  !.responded = Append(@, [id |-> id, kind |-> "rejected"])]
  /\ UNCHANGED << loopVars, rt, store, toolBatch, chat, parsed, tui, ctx, sliced, simple >>

\* The console with any onInput handler, one that may reject included.
NextConsoleRejecting == ConsoleLine \/ ChatReturns \/ OnInputRejects

SpecConsoleRejecting == InitConsole /\ [][NextConsoleRejecting]_vars

(***************************************************************************)
(* One call of ToolRegistry.executeBatch, promise by promise.              *)
(* toolBatch.calls are the calls handed in, toolBatch.settled the calls    *)
(* whose execute has settled, toolBatch.outcome the state of the promise   *)
(* executeBatch returned and toolBatch.results what it was fulfilled with. *)
(***************************************************************************)
\* The calls a model reply can ask for: a tool the registry holds or not, a
\* parameters object that is complete, incomplete or absent, a tool that does
\* its work or throws.
ToolCalls ==
  {ToolCall(tool, args, run) :
     tool \in {"t1", "t9"}, args \in {"valid", "invalid", "missing"},
     run \in {"ok", "failed"}}

InitBatch ==
  /\ InitLoop
  /\ orchestrator = "stages"
  /\ rt = RtIdle /\ store = StoreIdle
  /\ console = ConsoleIdle /\ chat = ChatIdle /\ parsed = ParsedIdle /\ tui = TuiIdle /\ ctx = CtxIdle /\ sliced = SlicedIdle /\ simple = SimpleIdle
  /\ \E batchCalls \in SeqsUpTo(ToolCalls, MaxItems) :
       toolBatch = [calls |-> batchCalls, settled |-> {}, outcome |-> "pending",
                    results |-> << >>]

\* The promise of one execute settles.  The calls run on after the promise
\* of the batch is rejected.
BatchSettle ==
  /\ \E i \in (1..Len(toolBatch.calls)) \ toolBatch.settled :
       toolBatch' = [toolBatch EXCEPT !.settled = @ \cup {i}]
  /\ UNCHANGED << loopVars, rt, store, console, chat, parsed, tui, ctx, sliced, simple >>

\* Promise.all settles: fulfilled with all results once every execute is
\* fulfilled, rejected as soon as one execute is rejected.
BatchReturn ==
  /\ toolBatch.outcome = "pending"
  /\ \E r \in {executeBatch(toolBatch.calls)} :
       IF r.rejected
       THEN /\ \E i \in toolBatch.settled : execute(toolBatch.calls[i]).rejected
            /\ toolBatch' = [toolBatch EXCEPT !.outcome = "rejected"]
       ELSE /\ toolBatch.settled = 1..Len(toolBatch.calls)
            /\ toolBatch' = [toolBatch EXCEPT !.outcome = "fulfilled",
                                              !.results = r.results]
  /\ UNCHANGED << loopVars, rt, store, console, chat, parsed, tui, ctx, sliced, simple >>

NextBatch == BatchSettle \/ BatchReturn

SpecBatch == InitBatch /\ [][NextBatch]_vars

(***************************************************************************)
(* OllamaClient.chat.  chat.posts are the outcomes of the axios posts made *)
(* so far, chat.results what chat returned for them.                       *)
(***************************************************************************)
\* What the post of a chat request ends in: a response, or a thrown value
\* with the fields transformError looks at.  status 0 is an error without a
\* response.
PostOk ==
  [ok |-> TRUE, isAxiosError |-> FALSE, isError |-> FALSE, code |-> "none",
   status |-> 0, request |-> FALSE]

\* The errors axios rejects a post with: a timeout or a failed connection has
\* a request and no response, a response with an error status has the status.
AxiosErrors ==
  {e \in [ok : {FALSE}, isAxiosError : {TRUE}, isError : {TRUE},
          code : {"none", "ECONNABORTED", "ECONNREFUSED", "ENOTFOUND",
                  "ERR_BAD_REQUEST", "ERR_BAD_RESPONSE"},
          status : {0, 404, 500}, request : BOOLEAN] :
     /\ e.code \in {"ECONNABORTED", "ECONNREFUSED", "ENOTFOUND"}
          => (e.status = 0 /\ e.request)
     /\ e.status # 0 => e.request
     /\ e.code = "ERR_BAD_REQUEST" => e.status = 404
     /\ e.code = "ERR_BAD_RESPONSE" => e.status = 500}

\* Anything else thrown inside chat's try block: an Error or another value.
OtherThrown ==
  {[ok |-> FALSE, isAxiosError |-> FALSE, isError |-> b, code |-> "none",
    status |-> 0, request |-> FALSE] : b \in BOOLEAN}

PostOutcomes == {PostOk} \cup AxiosErrors \cup OtherThrown

OllamaError(message, code, statusCode) ==
  [success |-> FALSE, message |-> message, code |-> code, statusCode |-> statusCode]

\* transformError that does not look at ECONNREFUSED.
transformErrorNoRefused(error) ==
  IF ~error.isAxiosError
  THEN OllamaError(IF error.isError THEN "error.message" ELSE "Unknown error occurred",
                   "UNKNOWN", 0)
  ELSE IF error.code = "ECONNABORTED"
  THEN OllamaError("Request timed out", "TIMEOUT", 0)
  ELSE IF error.status # 0
  THEN OllamaError("Ollama API error", "HTTP_ERROR", error.status)
  ELSE IF error.request
  THEN OllamaError("Network error", "UNKNOWN", 0)
  ELSE OllamaError("error.message", "UNKNOWN", 0)

\* OllamaClient.transformError; statusCode 0 is a statusCode left undefined.
transformError(error) ==
  IF ~error.isAxiosError
  THEN OllamaError(IF error.isError THEN "error.message" ELSE "Unknown error occurred",
                   "UNKNOWN", 0)
  ELSE IF error.code = "ECONNABORTED"
  THEN OllamaError("Request timed out", "TIMEOUT", 0)
  ELSE IF error.code = "ECONNREFUSED"
  THEN OllamaError("Cannot connect to Ollama", "CONNECTION_REFUSED", 0)
  ELSE IF error.status # 0
  THEN OllamaError("Ollama API error", "HTTP_ERROR", error.status)
  ELSE IF error.request
  THEN OllamaError("Network error", "UNKNOWN", 0)
  ELSE OllamaError("error.message", "UNKNOWN", 0)

\* What chat returns for the outcome of its post.
chatResult(post) ==
  IF post.ok
  THEN [success |-> TRUE, message |-> "response.data", code |-> "none", statusCode |-> 0]
  ELSE transformError(post)

InitChat ==
  /\ InitLoop
  /\ orchestrator = "stages"
  /\ rt = RtIdle /\ store = StoreIdle
  /\ console = ConsoleIdle /\ toolBatch = BatchIdle /\ chat = ChatIdle /\ parsed = ParsedIdle /\ tui = TuiIdle /\ ctx = CtxIdle /\ sliced = SlicedIdle /\ simple = SimpleIdle

\* chat: the payload is posted and the post ends.
ChatPost ==
  /\ chat.stage = "idle"
  /\ Len(chat.posts) < MaxChats
  /\ \E post \in PostOutcomes :
       chat' = [chat EXCEPT !.stage = "posted", !.posts = Append(@, post)]
  /\ UNCHANGED << loopVars, rt, store, console, toolBatch, parsed, tui, ctx, sliced, simple >>

\* chat: the return in the try block or the return in the catch block.
ChatResult ==
  /\ chat.stage = "posted"
  /\ chat' = [chat EXCEPT !.stage = "idle",
                          !.results = Append(@, chatResult(chat.posts[Len(chat.posts)]))]
  /\ UNCHANGED << loopVars, rt, store, console, toolBatch, parsed, tui, ctx, sliced, simple >>

NextChat == ChatPost \/ ChatResult

SpecChat == InitChat /\ [][NextChat]_vars

(***************************************************************************)
(* AgentOrchestrator.parseResponse applied to the replies of a model,      *)
(* one after another.  parsed.contents are the replies and parsed.types    *)
(* what parseResponse made of each: the type of the ParsedResponse, or     *)
(* "error" when it threw.                                                  *)
(***************************************************************************)
Replies ==
  {"tool_calls", "response", "mixed", "tool_calls_no_array", "response_no_string",
   "request_approval", "garbage"}

InitResponse ==
  /\ InitLoop
  /\ orchestrator = "agent"
  /\ rt = RtIdle /\ store = StoreIdle
  /\ OthersIdle

\* const parsed = this.parseResponse(response.message.content)
ParseReply ==
  /\ Len(parsed.contents) < MaxReplies
  /\ \E content \in Replies :
       parsed' = [contents |-> Append(parsed.contents, content),
                  types |-> Append(parsed.types, parseResponse(content))]
  /\ UNCHANGED << loopVars, rt, store, console, toolBatch, chat, tui, ctx, sliced, simple >>

NextResponse == ParseReply

SpecResponse == InitResponse /\ [][NextResponse]_vars

(***************************************************************************)
(* What a model call of the Executing phase is given.  ctx holds the part  *)
(* of executeTaskList / executeTask and of processMessage that decides it: *)
(* the loop, the task at work, the loop counter, the plan, the history,    *)
(* and ctx.sent, the messages of the call that is awaited.                 *)
(***************************************************************************)
\* `Current task: ${task.description}`
taskContext(n) == "task" \o ToString(n)

\* The fields of CallParams that carry the plan and the history.
CallParams(planDoc, messageHistory) ==
  [planDoc |-> planDoc, messageHistory |-> messageHistory]

\* OllamaClient.assembleMessages: the system prompt, the model prompt, the
\* plan, then the message history as it is.
assembleMessages(params) ==
  << [kind |-> "system", content |-> "agentMd"],
     [kind |-> "system", content |-> "modelPrompt"],
     [kind |-> "plan", content |-> params.planDoc] >>
  \o [i \in 1..Len(params.messageHistory) |->
        [kind |-> params.messageHistory[i].role,
         content |-> params.messageHistory[i].content]]

InitContext ==
  /\ InitLoop
  /\ orchestrator = "stages"
  /\ rt = RtIdle /\ store = StoreIdle
  /\ console = ConsoleIdle /\ toolBatch = BatchIdle /\ chat = ChatIdle
  /\ parsed = ParsedIdle /\ tui = TuiIdle /\ sliced = SlicedIdle /\ simple = SimpleIdle
  /\ \E loop \in {"stages", "agent"}, n \in 1..MaxTasks :
       ctx = [loop |-> loop, pc |-> "idle", tasks |-> IF loop = "stages" THEN n ELSE 0,
              task |-> 0, iterations |-> 0, plan |-> getDefaultPlan(1),
              history |-> << >>, sent |-> << >>]

\* executeTaskList is entered with the task list of Planning; processMessage
\* adds the user's message to the history and enters its loop.
CtxBegin ==
  /\ ctx.pc = "idle"
  /\ ctx' = IF ctx.loop = "stages"
            THEN [ctx EXCEPT !.pc = "task"]
            ELSE [ctx EXCEPT !.pc = "call",
                             !.history = addUserMessage(@, "request")]
  /\ UNCHANGED << loopVars, rt, store, console, toolBatch, chat, parsed, tui, sliced, simple >>

\* executeTaskList: the for loop takes the next task, or the list is done.
CtxTask ==
  /\ ctx.pc = "task"
  /\ ctx' = IF ctx.task < ctx.tasks
            THEN [ctx EXCEPT !.task = @ + 1, !.iterations = 0, !.pc = "call"]
            ELSE [ctx EXCEPT !.pc = "done"]
  /\ UNCHANGED << loopVars, rt, store, console, toolBatch, chat, parsed, tui, sliced, simple >>

\* The head of the while loop and the call: planDoc is the serialized plan
\* of the manager and messageHistory is getHistory() at this moment.
CtxSend ==
  /\ ctx.pc = "call"
  /\ IF ctx.loop = "stages" THEN taskLoopContinues(ctx.iterations)
                            ELSE agentLoopContinues(ctx.iterations)
  /\ ctx' = [ctx EXCEPT !.iterations = @ + 1,
                        !.pc = "await",
                        !.sent = assembleMessages(
                                   CallParams(serialize(ctx.plan), ctx.history))]
  /\ UNCHANGED << loopVars, rt, store, console, toolBatch, chat, parsed, tui, sliced, simple >>

\* The call returns.  executeTask now adds the task context and the reply to
\* the history, processMessage the reply; then the branch on the parsed reply.
CtxReply ==
  /\ ctx.pc = "await"
  /\ \E reply \in {"tool_calls", "response", "garbage"} :
       ctx' = IF ctx.loop = "stages"
              THEN [ctx EXCEPT
                      !.sent = << >>,
                      !.history = addAssistantMessage(
                                    addUserMessage(@, taskContext(ctx.task)), "reply"),
                      !.pc = CASE parseStageResponse(reply) = "tool_calls" -> "tools"
                               [] parseStageResponse(reply) = "response" -> "task"
                               [] OTHER -> "call"]
              ELSE [ctx EXCEPT
                      !.sent = << >>,
                      !.history = addAssistantMessage(@, "reply"),
                      !.pc = IF parseResponse(reply) = "tool_calls" THEN "tools"
                             ELSE "done"]
  /\ UNCHANGED << loopVars, rt, store, console, toolBatch, chat, parsed, tui, sliced, simple >>

\* The tool batch: its results go to the history, and processMessage adds
\* its entry to the execution log.
CtxTools ==
  /\ ctx.pc = "tools"
  /\ \E run \in {"ok", "failed"} :
       LET batch == executeBatch(<< ToolCall("t1", "valid", run) >>).results
       IN  ctx' = [ctx EXCEPT
                     !.history = addUserMessage(@, "tool_results"),
                     !.plan = IF ctx.loop = "agent" THEN logToolBatch(@, batch, 1) ELSE @,
                     !.pc = "call"]
  /\ UNCHANGED << loopVars, rt, store, console, toolBatch, chat, parsed, tui, sliced, simple >>

\* The loop counter has reached the cap: executeTask returns the task as
\* failed, processMessage throws.
CtxCap ==
  /\ ctx.pc = "call"
  /\ IF ctx.loop = "stages" THEN ~taskLoopContinues(ctx.iterations)
                            ELSE ~agentLoopContinues(ctx.iterations)
  /\ ctx' = [ctx EXCEPT !.pc = IF ctx.loop = "stages" THEN "task" ELSE "done"]
  /\ UNCHANGED << loopVars, rt, store, console, toolBatch, chat, parsed, tui, sliced, simple >>

NextContext == CtxBegin \/ CtxTask \/ CtxSend \/ CtxReply \/ CtxTools \/ CtxCap

SpecContext == InitContext /\ [][NextContext]_vars

(***************************************************************************)
(* The state of the TUI (AppContext) under the actions the application     *)
(* dispatches.  tui.messages is the number of messages, tui.localInput the *)
(* text the InputBar holds before it is submitted.                         *)
(***************************************************************************)
pageLines == 10
RESERVED_LINES == 4

\* createMessage(role, content); id stands for crypto.randomUUID(), a value no
\* earlier message has.
createMessage(role, content, id) == [id |-> id, role |-> role, content |-> content]

\* The messages createInitialState starts with when test messages are asked
\* for: user and agent in turn.
testMessages ==
  [i \in 1..18 |-> createMessage(IF i % 2 = 1 THEN "user" ELSE "agent", "test", i)]

createInitialState(includeTestMessages) ==
  [TuiIdle EXCEPT !.messages = IF includeTestMessages THEN testMessages ELSE << >>]

\* input.trim() === ""
IsBlank(input) == input \in {"", " "}

\* SCROLL_UP without the cap at the first message.
scrollUpUnclamped(state, lines) == state.scrollOffset + lines

\* SCROLL_UP: Math.min(scrollOffset + lines, Math.max(0, messages.length - 1))
scrollUp(state, lines) ==
  Min({state.scrollOffset + lines, Max({0, Len(state.messages) - 1})})

\* ADD_MESSAGE that puts the new message first.
addMessageFirst(state, message) ==
  [state EXCEPT !.messages = << message >> \o @, !.scrollOffset = 0]

\* case "ADD_MESSAGE"
addMessage(state, message) ==
  [state EXCEPT !.messages = Append(@, message), !.scrollOffset = 0]

\* UPDATE_INPUT that also scrolls to the bottom.
updateInputScrolls(state, input) ==
  [state EXCEPT !.currentInput = input, !.scrollOffset = 0]

\* case "UPDATE_INPUT"
updateInput(state, input) == [state EXCEPT !.currentInput = input]

\* SUBMIT_INPUT without the test for an empty input.
submitInputUnchecked(state) ==
  [state EXCEPT
     !.messages = Append(@, createMessage("user", state.currentInput,
                                          Len(state.messages) + 1)),
     !.currentInput = "",
     !.scrollOffset = 0]

\* case "SUBMIT_INPUT"
submitInput(state) ==
  IF IsBlank(state.currentInput) THEN state
  ELSE [state EXCEPT
          !.messages = Append(@, createMessage("user", state.currentInput,
                                               Len(state.messages) + 1)),
          !.currentInput = "",
          !.scrollOffset = 0]

\* appReducer, case by case.
appReducer(state, action) ==
  CASE action.type = "ADD_MESSAGE" -> addMessage(state, action.message)
    [] action.type = "UPDATE_INPUT" -> updateInput(state, action.input)
    [] action.type = "SUBMIT_INPUT" -> submitInput(state)
    [] action.type = "CLEAR_INPUT" ->
         [state EXCEPT !.currentInput = ""]
    [] action.type = "SCROLL_UP" ->
         [state EXCEPT !.scrollOffset = scrollUp(state, action.lines)]
    [] action.type = "SCROLL_DOWN" ->
         [state EXCEPT !.scrollOffset = Max({0, state.scrollOffset - action.lines})]
    [] action.type = "SCROLL_TO_BOTTOM" ->
         [state EXCEPT !.scrollOffset = 0]
    [] action.type = "TERMINAL_RESIZE" ->
         [state EXCEPT !.terminalHeight = action.height]

\* The state after a step, with the count of the messages added since the
\* start brought up to date.
Counted(state, next) ==
  [next EXCEPT !.added = state.added + Len(next.messages) - Len(state.messages)]

InitTui ==
  /\ InitLoop
  /\ orchestrator = "stages"
  /\ rt = RtIdle /\ store = StoreIdle
  /\ console = ConsoleIdle /\ toolBatch = BatchIdle /\ chat = ChatIdle
  /\ parsed = ParsedIdle /\ ctx = CtxIdle /\ sliced = SlicedIdle /\ simple = SimpleIdle
  /\ \E includeTestMessages \in BOOLEAN : tui = createInitialState(includeTestMessages)

\* InputBar's useInput: the arrow and page keys scroll, return submits the
\* local input when it is not blank, backspace and characters edit it.
TuiKey ==
  \E key \in {"upArrow", "downArrow", "pageUp", "pageDown", "return",
              "backspace", "space", "char"} :
    /\ tui' = Counted(tui,
         CASE key = "upArrow" -> appReducer(tui, [type |-> "SCROLL_UP", lines |-> 1])
           [] key = "downArrow" -> appReducer(tui, [type |-> "SCROLL_DOWN", lines |-> 1])
           [] key = "pageUp" -> appReducer(tui, [type |-> "SCROLL_UP", lines |-> pageLines])
           [] key = "pageDown" ->
                appReducer(tui, [type |-> "SCROLL_DOWN", lines |-> pageLines])
           [] key = "return" ->
                IF IsBlank(tui.localInput) THEN tui
                ELSE [appReducer(appReducer(tui, [type |-> "UPDATE_INPUT",
                                                  input |-> tui.localInput]),
                                 [type |-> "SUBMIT_INPUT"])
                        EXCEPT !.localInput = ""]
           [] key = "backspace" -> [tui EXCEPT !.localInput = ""]
           [] key = "space" ->
                [tui EXCEPT !.localInput = IF @ = "" THEN " " ELSE @]
           [] OTHER -> [tui EXCEPT !.localInput = "x"])
    /\ tui'.added <= MaxNewMessages
    /\ UNCHANGED << loopVars, rt, store, console, toolBatch, chat, parsed, ctx, sliced, simple >>

\* The actions the rest of the application dispatches: a message of the
\* agent, and the input and resize actions of AppAction.
TuiDispatch ==
  \E action \in {[type |-> "ADD_MESSAGE",
                  message |-> createMessage("agent", "reply", Len(tui.messages) + 1)],
                 [type |-> "CLEAR_INPUT"],
                 [type |-> "SCROLL_TO_BOTTOM"],
                 [type |-> "UPDATE_INPUT", input |-> "y"],
                 [type |-> "UPDATE_INPUT", input |-> " "],
                 [type |-> "SUBMIT_INPUT"],
                 [type |-> "TERMINAL_RESIZE", height |-> 1],
                 [type |-> "TERMINAL_RESIZE", height |-> 40]} :
    /\ tui' = Counted(tui, appReducer(tui, action))
    /\ tui'.added <= MaxNewMessages
    /\ UNCHANGED << loopVars, rt, store, console, toolBatch, chat, parsed, ctx, sliced, simple >>

NextTui == TuiKey \/ TuiDispatch

SpecTui == InitTui /\ [][NextTui]_vars

(***************************************************************************)
(* PlanDeserializer on documents whose header block is there, is not       *)
(* closed, or is missing, with header lines that parse and lines that do   *)
(* not.                                                                    *)
(***************************************************************************)
HeaderLines ==
  {<< "createdAt", ":", " ", "3" >>, << "createdAt", ":", " ", "x" >>,
   << "updatedAt", ":", " ", "1" >>, << "version", ":", " ", "2" >>,
   << "version" >>, << "status", ":", " ", "failed" >>}

HeaderBodies ==
  {<< "##", " ", "Goal", NL, "g1" >>, << "**Status:**", " ", "failed" >>}

\* A document: no header block, a block between two --- lines, or a block
\* whose closing --- line is missing.
HeaderDoc(form, lines, body) ==
  CASE form = "none" -> body
    [] form = "closed" ->
         << "---", NL >> \o Join(lines, << NL >>) \o << NL, "---", NL >> \o body
    [] OTHER -> << "---", NL >> \o Join(lines, << NL >>) \o << NL >> \o body

InitHeader ==
  /\ InitLoop
  /\ OthersIdle
  /\ orchestrator = "stages"
  /\ store = StoreIdle
  /\ \E form \in {"none", "closed", "open"},
        lines \in SeqsUpTo(HeaderLines, MaxHeaderLines), body \in HeaderBodies :
       rt = [stage |-> "markdown", plan |-> NoPlan,
             markdown |-> HeaderDoc(form, lines, body), result |-> NoResult]

NextHeader == RtDeserialize

SpecHeader == InitHeader /\ [][NextHeader]_vars

(***************************************************************************)
(* PlanDeserializer on documents in which each of the five sections is     *)
(* left out, holds what the serializer writes for an empty collection, or  *)
(* holds what it writes for one item.                                      *)
(***************************************************************************)
SectionOrder ==
  << "Goal", "Acceptance Criteria", "Decisions Made", "Decisions Rejected", "Execution Log" >>

SectionForms == {"absent", "placeholder", "filled"}

\* What serialize writes for section i of a plan with nothing in it
\* (filled = FALSE) and of a plan with one item in it.
SectionText(i, filled) ==
  CASE i = 1 -> << "##", " ", "Goal", NL >> \o (IF filled THEN << "g1" >> ELSE GoalPlaceholder)
    [] i = 2 -> serializeAcceptanceCriteria(
                  IF filled
                  THEN << [description |-> << "c1" >>, completed |-> FALSE, notes |-> << >>] >>
                  ELSE << >>)
    [] i = 3 -> serializeDecisionsMade(
                  IF filled
                  THEN << [title |-> << "d1" >>, rationale |-> << "r1" >>,
                           alternatives |-> << >>, timestamp |-> TicksPerMinute] >>
                  ELSE << >>)
    [] i = 4 -> serializeDecisionsRejected(
                  IF filled
                  THEN << [title |-> << "d2" >>, rationale |-> << "r2" >>,
                           alternatives |-> << >>, timestamp |-> TicksPerMinute] >>
                  ELSE << >>)
    [] OTHER -> serializeExecutionLog(
                  IF filled
                  THEN << [timestamp |-> TicksPerMinute, action |-> << "a1" >>,
                           result |-> << "ok" >>, toolsUsed |-> << << "t1" >> >>] >>
                  ELSE << >>)

\* The lines of serialize's body from section i on, a section of form
\* "absent" left out.
RECURSIVE SectionsFrom(_, _)
SectionsFrom(forms, i) ==
  IF i > Len(SectionOrder) THEN << >>
  ELSE (IF forms[i] = "absent" THEN << >>
        ELSE << NL >> \o SectionText(i, forms[i] = "filled"))
         \o SectionsFrom(forms, i + 1)

SectionsDoc(forms) ==
  << "---", NL, "status", ":", " ", "planning", NL, "createdAt", ":", " ", "1", NL,
     "updatedAt", ":", " ", "2", NL, "version", ":", " ", "1", NL, "---", NL,
     "#", " ", "Plan:", " ", "g1", NL, NL, "**Status:**", " ", "planning", NL >>
    \o SectionsFrom(forms, 1)

\* The field of the plan that section i is parsed into.
SectionValue(p, i) ==
  CASE i = 1 -> p.goal
    [] i = 2 -> p.acceptanceCriteria
    [] i = 3 -> p.decisionsMade
    [] i = 4 -> p.decisionsRejected
    [] OTHER -> p.executionLog

InitSections ==
  /\ InitLoop
  /\ OthersIdle
  /\ orchestrator = "stages"
  /\ store = StoreIdle
  /\ \E forms \in [1..Len(SectionOrder) -> SectionForms] :
       rt = [stage |-> "markdown", plan |-> NoPlan, markdown |-> SectionsDoc(forms),
             result |-> NoResult]

NextSections == RtDeserialize

SpecSections == InitSections /\ [][NextSections]_vars

(***************************************************************************)
(* PlanDeserializer on Acceptance Criteria sections written by hand or by  *)
(* a model: list lines with each of the check marks, with and without a    *)
(* description, with notes, with an emphasised description.                *)
(***************************************************************************)
CriterionLines ==
  {<< "-", " ", "[x]", " ", "t1" >>,
   << "-", " ", "[X]", " ", "t2" >>,
   << "-", " ", "[U+2713]", " ", "t3", " ", "*(", "n1", ")*" >>,
   << "-", " ", "[U+2714]", " ", "t4" >>,
   << "-", " ", "[ ]", " ", "t5" >>,
   << "-", " ", "[x]" >>,
   << "-", " ", "[X]", " ", "*", "t6", "*" >>,
   << "-", " ", "[ ]", " ", "*(", "n2", ")*" >>}

CriteriaDoc(lines) == << NL, "##", " ", "Acceptance Criteria", NL >> \o Join(lines, << NL >>) \o << NL >>

\* /\[(x|X|U+2713|U+2714)\]/.test(line)
HasCheckedBox(line) == \E k \in 1..Len(line) : line[k] \in CheckedBoxes

InitCriteria ==
  /\ InitLoop
  /\ OthersIdle
  /\ orchestrator = "stages"
  /\ store = StoreIdle
  /\ \E lines \in SeqsUpTo(CriterionLines, MaxCriterionLines) :
       rt = [stage |-> "markdown", plan |-> NoPlan, markdown |-> CriteriaDoc(lines),
             result |-> NoResult]

NextCriteria == RtDeserialize

SpecCriteria == InitCriteria /\ [][NextCriteria]_vars

(***************************************************************************)
(* sliceMessages: the window of messages the chat area shows               *)
(***************************************************************************)

\* Array.prototype.slice(start, end) on a 0-based array: a negative index
\* counts from the end, every index is clamped to the array, and the result
\* is a new array (the receiver is left as it was).
ArraySlice(arr, start, end) ==
  LET from == IF start < 0 THEN Max({Len(arr) + start, 0}) ELSE Min({start, Len(arr)})
      to == IF end < 0 THEN Max({Len(arr) + end, 0}) ELSE Min({end, Len(arr)})
  IN IF from < to THEN SubSeq(arr, from + 1, to) ELSE << >>

sliceMessages(messages, visibleLines, scrollOffset) ==
  IF Len(messages) = 0 THEN << >>
  ELSE LET endIndex == Len(messages) - scrollOffset
           startIndex == Max({0, endIndex - visibleLines})
       IN ArraySlice(messages, startIndex, endIndex)

\* The rows the terminal may report to the chat area (24 when it reports none).
TerminalRows == {0, 1, 4, 5, 24, 40}

\* The chat area's share of the terminal: at least one line.
visibleLinesUnclamped(terminalHeight) == terminalHeight - RESERVED_LINES

visibleLinesOf(terminalHeight) == Max({1, terminalHeight - RESERVED_LINES})

InitSlice ==
  /\ InitLoop /\ orchestrator = "stages"
  /\ rt = RtIdle /\ store = StoreIdle /\ console = ConsoleIdle /\ toolBatch = BatchIdle
  /\ chat = ChatIdle /\ parsed = ParsedIdle /\ tui = TuiIdle /\ ctx = CtxIdle
  /\ simple = SimpleIdle
  /\ \E n \in 0..MaxSliceMessages, visibleLines \in 0..MaxVisibleLines,
        scrollOffset \in 0..MaxScrollOffset :
       sliced = [messages |-> [i \in 1..n |->
                                 createMessage(IF i % 2 = 1 THEN "user" ELSE "agent", "test", i)],
                 visibleLines |-> visibleLines, scrollOffset |-> scrollOffset,
                 done |-> FALSE, result |-> << >>]

SliceCall ==
  /\ ~sliced.done
  /\ sliced' = [sliced EXCEPT !.done = TRUE,
                              !.result = sliceMessages(sliced.messages, sliced.visibleLines,
                                                       sliced.scrollOffset)]
  /\ UNCHANGED << loopVars, rt, store, console, toolBatch, chat, parsed, tui, ctx, simple >>

NextSlice == SliceCall

SpecSlice == InitSlice /\ [][NextSlice]_vars

(***************************************************************************)
(* SimpleOrchestrator.processMessage.  simple.inputs are the user messages *)
(* passed so far, simple.requests the requests given to the client,        *)
(* simple.replies what the client's chat returned and simple.results what  *)
(* processMessage returned.  A systemPrompt of "" is one left undefined    *)
(* (or configured empty: both are falsy).                                  *)
(***************************************************************************)
SystemPrompts == {"", "You are a helpful coding assistant."}

UserMessages == {"Hello!", "And then?"}

ChatSuccess(content) ==
  [success |-> TRUE,
   value |-> [model |-> "deepseek-coder-v2:16b",
              message |-> [role |-> "assistant", content |-> content], done |-> TRUE]]

ChatFailure(error) == [success |-> FALSE, error |-> error]

\* What OllamaClient.chat resolves to: a response of the chat API, or the
\* OllamaError transformError makes of what the post threw.
ClientResults ==
  {ChatSuccess(content) : content \in {"Hello! How can I help you today?", ""}}
    \cup {ChatFailure(transformError(e)) : e \in AxiosErrors \cup OtherThrown}

\* The messages array of a call.
buildMessages(systemPrompt, userMessage) ==
  (IF systemPrompt # "" THEN << [role |-> "system", content |-> systemPrompt] >> ELSE << >>)
    \o << [role |-> "user", content |-> userMessage] >>

\* The transformation of the client's result.
processResultDropsStatus(result) ==
  IF result.success
  THEN [success |-> TRUE, value |-> result.value.message.content]
  ELSE [success |-> FALSE,
        error |-> OllamaError(result.error.message, result.error.code, 0)]

processResult(result) ==
  IF result.success
  THEN [success |-> TRUE, value |-> result.value.message.content]
  ELSE [success |-> FALSE, error |-> result.error]

InitSimple ==
  /\ InitLoop /\ orchestrator = "stages"
  /\ rt = RtIdle /\ store = StoreIdle /\ console = ConsoleIdle /\ toolBatch = BatchIdle
  /\ chat = ChatIdle /\ parsed = ParsedIdle /\ tui = TuiIdle /\ ctx = CtxIdle
  /\ sliced = SlicedIdle
  /\ \E systemPrompt \in SystemPrompts : simple = [SimpleIdle EXCEPT !.systemPrompt = systemPrompt]

\* processMessage up to its await, carrying the earlier messages along.
SimpleProcessMessageWithHistory ==
  /\ simple.pc = "idle"
  /\ Len(simple.inputs) < MaxSimpleCalls
  /\ \E userMessage \in UserMessages :
       simple' = [simple EXCEPT
         !.pc = "awaiting",
         !.inputs = Append(@, userMessage),
         !.requests = Append(@,
            [model |-> "deepseek-coder-v2:16b",
             messages |-> [i \in 1..Len(simple.inputs) |->
                             [role |-> "user", content |-> simple.inputs[i]]]
                            \o buildMessages(simple.systemPrompt, userMessage),
             stream |-> FALSE])]
  /\ UNCHANGED << loopVars, rt, store, console, toolBatch, chat, parsed, tui, ctx, sliced >>

\* processMessage up to its await: the messages are built and chat is called.
SimpleProcessMessage ==
  /\ simple.pc = "idle"
  /\ Len(simple.inputs) < MaxSimpleCalls
  /\ \E userMessage \in UserMessages :
       simple' = [simple EXCEPT
         !.pc = "awaiting",
         !.inputs = Append(@, userMessage),
         !.requests = Append(@,
            [model |-> "deepseek-coder-v2:16b",
             messages |-> buildMessages(simple.systemPrompt, userMessage),
             stream |-> FALSE])]
  /\ UNCHANGED << loopVars, rt, store, console, toolBatch, chat, parsed, tui, ctx, sliced >>

\* chat resolves and processMessage returns.
ProcessReturn ==
  /\ simple.pc = "awaiting"
  /\ \E result \in ClientResults :
       simple' = [simple EXCEPT !.pc = "idle",
                                !.replies = Append(@, result),
                                !.results = Append(@, processResult(result))]
  /\ UNCHANGED << loopVars, rt, store, console, toolBatch, chat, parsed, tui, ctx, sliced >>

NextSimple == SimpleProcessMessage \/ ProcessReturn

SpecSimple == InitSimple /\ [][NextSimple]_vars

(***************************************************************************)
(* Properties                                                              *)
(***************************************************************************)
Last(seq) == seq[Len(seq)]

IsPrefix(a, b) == Len(a) <= Len(b) /\ SubSeq(b, 1, Len(a)) = a

SameButLog(p, q) == [p EXCEPT !.executionLog = << >>] = [q EXCEPT !.executionLog = << >>]

IsEmptyPlan(p) ==
  /\ p.status = "planning" /\ p.goal = << >> /\ p.acceptanceCriteria = << >>
  /\ p.decisionsMade = << >> /\ p.decisionsRejected = << >> /\ p.executionLog = << >>

CapResult == TaskResult("failed", "Max iterations reached", "none")

\* C1 (as stated): when every reply was malformed, the loop has made exactly
\* the cap's number of model calls before it gives up, in executeTask and in
\* processMessage alike.
C1_ExactlyCapAttempts ==
  /\ (orchestrator = "stages" /\ phase = "Executing" /\ pc = "next" /\ onlyMalformed)
       => calls = maxIterations
  /\ (orchestrator = "agent" /\ outcome = "InvalidFormat" /\ calls = 1)
       => calls = ConfigMaxIterations

\* C1 (amended): a task of the three-stage workflow never gets more than
\* maxIterations model calls; a task whose every reply was malformed has had
\* exactly maxIterations calls when executeTask returns, it is returned as
\* failed ("Max iterations reached"), and the result does not stop the task
\* list.  AgentOrchestrator.processMessage never makes more than
\* config.maxIterations calls either, but ends the request with an error at
\* the first malformed reply.
C1_IterationCap ==
  /\ orchestrator = "stages" =>
       /\ calls <= maxIterations
       /\ outcome # "InvalidFormat"
       /\ (phase = "Executing" /\ pc = "next" /\ onlyMalformed) =>
            /\ calls = maxIterations
            /\ results # << >>
            /\ Last(results) = CapResult
            /\ ~stopsTaskList(Last(results))
            /\ Len(results) = cursor
  /\ orchestrator = "agent" =>
       /\ calls <= ConfigMaxIterations
       /\ outcome = "InvalidFormat" =>
            (phase = "Idle" /\ calls = iterations /\ Last(history).role = "assistant")

C1_Witness ==
  /\ orchestrator = "stages" /\ phase = "Executing" /\ pc = "next"
  /\ onlyMalformed /\ calls = maxIterations /\ cursor < tasks

\* C2 (as stated): of two writes by different writers that carry the same
\* expected version, the later one is refused with VersionConflict.
C2_VersionConflict ==
  \A i, j \in 1..Len(store.saves) :
    (/\ i < j
     /\ store.saves[i].writer # store.saves[j].writer
     /\ store.saves[i].expectedVersion = store.saves[j].expectedVersion)
      => store.saves[j].outcome = "VersionConflict"

\* C2 (amended): every Summarization write succeeds, whatever version the file
\* holds, and the file is then the serialization of the plan of the writer
\* that wrote last: the last write wins.
C2_LastWriteWins ==
  store.saves # << >> =>
    /\ \A i \in 1..Len(store.saves) : store.saves[i].outcome = "ok"
    /\ store.file = serialize(store.sessions[Last(store.saves).writer].plan)

C2_Witness ==
  /\ Len(store.saves) = 2
  /\ store.saves[1].writer # store.saves[2].writer
  /\ store.saves[1].expectedVersion = store.saves[2].expectedVersion
  /\ store.saves[2].outcome = "ok"
  /\ store.file = serialize(store.sessions[store.saves[2].writer].plan)
  /\ store.file # serialize(store.sessions[store.saves[1].writer].plan)

C5_RoundTrip ==
  rt.stage = "parsed" =>
    /\ rt.result.success
    /\ [rt.result.value EXCEPT !.metadata.updatedAt = 0]
         = [rt.plan EXCEPT !.metadata.updatedAt = 0]

\* C6: a request of the three-stage workflow that starts from an empty plan,
\* gets a list of one task and a final answer to the first model call of
\* that task, and whose Summarization succeeds, has gone through Planning,
\* Executing, Summarizing and Idle, each once and in that order, has added
\* exactly one entry to the execution log and has raised the version by
\* exactly 1.
MinimalSession ==
  /\ orchestrator = "stages" /\ phase = "Idle" /\ outcome = "completed"
  /\ IsEmptyPlan(planAtSubmit)
  /\ tasks = 1
  /\ iterations = 1
  /\ results = << TaskResult("success", "none", "none") >>

C7_HaltsUnchanged ==
  unreachable # "none" => (phase = "Idle" /\ plan = planAtSubmit)

\* C7 (amended): once the model backend was found unreachable in a request,
\* the request has ended with BackendUnavailable and the loop is at Idle; in
\* the three-stage workflow the plan is then the plan the request started
\* with, in AgentOrchestrator.processMessage it is that plan with the log
\* entries of the tool batches that ran before.  An unreachable tool backend
\* ends nothing: the batch comes back as failed results and the loop is at its
\* next model call.
C7_BackendUnavailable ==
  /\ unreachable = "model" =>
       /\ phase = "Idle" /\ outcome = "BackendUnavailable"
       /\ orchestrator = "stages" => plan = planAtSubmit
       /\ orchestrator = "agent" =>
            /\ SameButLog(plan, planAtSubmit)
            /\ IsPrefix(planAtSubmit.executionLog, plan.executionLog)
  /\ unreachable = "tool" =>
       /\ phase = "Executing" /\ pc = "call" /\ outcome = "none"
       /\ history # << >> /\ Last(history) = Msg("user", "tool_results")

C7_Witness ==
  /\ orchestrator = "agent" /\ unreachable = "model" /\ phase = "Idle"
  /\ Len(plan.executionLog) > Len(planAtSubmit.executionLog)

C10_LoggedAsFailed ==
  /\ outcome # "MaxIterations"
  /\ (/\ phase = "Idle" /\ outcome = "completed"
      /\ \E i \in 1..Len(results) : results[i] = CapResult)
       => Last(plan.executionLog).result = << "failed" >>

\* C10 (amended): in the three-stage workflow a task that reaches its cap is
\* put into the results as failed ("Max iterations reached"), and the next
\* step goes on with the next task, or to Summarizing after the last task;
\* the request is not aborted.  The entry of the execution log is the one the
\* summarizer writes, whatever it says.  AgentOrchestrator.processMessage has
\* one cap for the whole request, and reaching it ends the request with an
\* error.
C10_CapExhaustion ==
  [][/\ (Len(results') > Len(results) /\ iterations >= maxIterations /\ pc = "call")
          => (results' = Append(results, CapResult) /\ phase' = "Executing" /\ pc' = "next")
     /\ (/\ orchestrator = "stages" /\ phase = "Executing" /\ pc = "next"
         /\ results # << >> /\ Last(results) = CapResult)
          => /\ results' = results
             /\ outcome' = outcome
             /\ IF cursor < tasks
                THEN phase' = "Executing" /\ pc' = "call" /\ cursor' = cursor + 1
                ELSE phase' = "Summarizing"
     /\ (phase = "Summarizing" /\ phase' = "Idle" /\ outcome' = "completed")
          => (/\ Len(plan'.executionLog) = Len(plan.executionLog) + 1
              /\ Last(plan'.executionLog).result = summary'.result)
     /\ (/\ orchestrator = "agent" /\ phase = "Executing" /\ pc = "call"
         /\ ~agentLoopContinues(iterations))
          => (phase' = "Idle" /\ outcome' = "MaxIterations" /\ plan' = plan)]_vars

C10_Witness ==
  /\ orchestrator = "stages" /\ phase = "Executing" /\ pc = "call"
  /\ cursor = 2
  /\ results = << CapResult >>

\* C11 (as stated): after a model call or a tool call that timed out the loop
\* is still executing, at its next model call, with the pass counted and the
\* request not ended.
C11_TimeoutIsFailedAttempt ==
  timedOut # "none" =>
    (phase = "Executing" /\ pc = "call" /\ outcome = "none" /\ iterations >= 1)

\* C11 (amended): a model call that timed out ends the request: the rejection
\* of call is caught nowhere in the loop, no result is recorded for the task
\* and the loop is at Idle; in the three-stage workflow the plan is then the
\* plan the request started with.  A tool call that timed out is returned by
\* ToolRegistry.execute as a failed result: the results go into the history,
\* the pass is counted and the loop is at its next model call for the same
\* task.
C11_Timeouts ==
  /\ timedOut = "model" =>
       /\ phase = "Idle" /\ pc = "idle" /\ outcome = "Timeout"
       /\ iterations >= 1
       /\ orchestrator = "stages" => (plan = planAtSubmit /\ Len(results) < cursor)
  /\ timedOut = "tool" =>
       /\ phase = "Executing" /\ pc = "call" /\ outcome = "none"
       /\ iterations >= 1
       /\ history # << >> /\ Last(history) = Msg("user", "tool_results")
       /\ orchestrator = "stages" => Len(results) < cursor

C11_Witness ==
  /\ orchestrator = "stages" /\ timedOut = "model" /\ phase = "Idle"
  /\ cursor = 2 /\ iterations > 1
  /\ Len(results) = 1

\* The messages the user wrote: the request processMessage puts into the
\* history.  Tool results and task prompts are user messages by their role only.
UserAuthored(messages) ==
  {i \in 1..Len(messages) : messages[i] = Msg("user", "request")}

C15_OneRequestAtATime ==
  /\ Cardinality(console.inFlight) <= 1
  /\ console.inFlight # {} => console.isProcessing
  /\ \A i \in 1..MaxMessages : console.requested[i] <= 1
  /\ \A i \in console.dropped : console.requested[i] = 0
  /\ \A i, j \in 1..Len(console.responded) :
       i < j => console.responded[i].id < console.responded[j].id

C15_Witness ==
  /\ console.lines = << "text", "text", "text" >>
  /\ console.dropped = {2}
  /\ console.inFlight = {3}
  /\ Len(console.responded) = 1
  /\ console.requested[1] = 1 /\ console.requested[3] = 1

\* C16 (as stated): once three messages have been entered and no request is
\* in flight any more, all three have been answered, in the order they were
\* entered.
C16_AllAnsweredInOrder ==
  (/\ Len(console.lines) = MaxMessages
   /\ \A i \in 1..MaxMessages : console.lines[i] = "text"
   /\ console.inFlight = {})
    => /\ Len(console.responded) = MaxMessages
       /\ \A i \in 1..MaxMessages : console.responded[i].id = i

\* C17 (as stated): when the promise of executeBatch has settled, every call
\* has finished and there is one result per call, in the order of the calls,
\* each saying of its own call whether the tool is registered, the parameters
\* are valid and the tool did its work.
C17_OneResultPerCall ==
  toolBatch.outcome \in {"fulfilled", "rejected"} =>
    /\ toolBatch.settled = 1..Len(toolBatch.calls)
    /\ Len(toolBatch.results) = Len(toolBatch.calls)
    /\ \A i \in 1..Len(toolBatch.calls) :
         toolBatch.results[i].success
           = (/\ toolBatch.calls[i].tool \in RegisteredTools
              /\ toolBatch.calls[i].args = "valid"
              /\ toolBatch.calls[i].run = "ok")

\* C18: every chat call returns a Result.  It is a success exactly when the
\* post got its response; a failure has the code TIMEOUT exactly for a request
\* that timed out, CONNECTION_REFUSED exactly for a refused connection,
\* HTTP_ERROR exactly when a response with an error status arrived, and then
\* carries that status, and UNKNOWN in every other case.
C18_ChatClassifies ==
  /\ Len(chat.results) = Len(chat.posts) - (IF chat.stage = "posted" THEN 1 ELSE 0)
  /\ \A i \in 1..Len(chat.results) :
       /\ chat.results[i].success = chat.posts[i].ok
       /\ ~chat.posts[i].ok =>
            /\ chat.results[i].code
                 \in {"TIMEOUT", "CONNECTION_REFUSED", "HTTP_ERROR", "UNKNOWN"}
            /\ chat.results[i].code = "TIMEOUT"
                 <=> chat.posts[i].code = "ECONNABORTED"
            /\ chat.results[i].code = "CONNECTION_REFUSED"
                 <=> chat.posts[i].code = "ECONNREFUSED"
            /\ chat.results[i].code = "HTTP_ERROR"
                 <=> (chat.posts[i].isAxiosError /\ chat.posts[i].status # 0)
            /\ chat.results[i].code = "HTTP_ERROR"
                 => chat.results[i].statusCode = chat.posts[i].status
            /\ chat.results[i].code # "HTTP_ERROR" => chat.results[i].statusCode = 0

C18_Witness ==
  /\ Len(chat.results) = 2
  /\ chat.posts[1].code = "ECONNREFUSED"
  /\ chat.results[1].code = "CONNECTION_REFUSED"
  /\ chat.posts[2].status = 404
  /\ chat.results[2].code = "HTTP_ERROR" /\ chat.results[2].statusCode = 404

\* C19 (as stated): the log the request started with is an unchanged prefix
\* of the log of the plan in the manager, and of the log of the plan loadPlan
\* parses from the saved file.
C19_LogAppendOnly ==
  /\ IsPrefix(planAtSubmit.executionLog, plan.executionLog)
  /\ (loaded.done /\ ~loaded.failed)
       => IsPrefix(planAtSubmit.executionLog, loaded.plan.executionLog)

\* The stages of the workflow in the order the driver awaits them.
Stages == << "Planning", "Executing", "Summarizing" >>

\* C20 (as stated): every request of the three-stage workflow starts in
\* Planning and goes from there to Executing, whatever happens in Planning.
C20_PlanningThenExecuting ==
  (orchestrator = "stages" /\ requests > 0) =>
    /\ trail[1] = "Planning"
    /\ Len(trail) >= 2 => trail[2] = "Executing"

\* C20 (amended): a request of the three-stage workflow starts in Planning
\* and goes through the stages one after another, each at most once, until
\* it is back at Idle.  Planning goes to Executing, with cursor 0 and no
\* result yet, when the planning call has returned a task list that parses;
\* when a call made in Planning is rejected or the reply is no JSON the
\* request ends at Idle without Executing.  A request of
\* AgentOrchestrator.processMessage has no Planning: it starts in Executing
\* and ends at Idle.
C20_PhaseOrder ==
  requests > 0 =>
    /\ phase = Last(trail)
    /\ orchestrator = "stages" =>
         /\ \E n \in 1..Len(Stages) :
              \/ trail = SubSeq(Stages, 1, n)
              \/ trail = Append(SubSeq(Stages, 1, n), "Idle")
         /\ trail = << "Planning", "Idle" >>
              => outcome \in {"BackendUnavailable", "SyntaxError"}
         /\ (phase = "Executing" /\ pc = "next") => cursor = Len(results)
         /\ (phase = "Executing" /\ iterations = 0 /\ pc = "next")
              => (cursor = 0 /\ results = << >>)
    /\ orchestrator = "agent" =>
         trail \in {<< "Executing" >>, << "Executing", "Idle" >>}

C20_Witness ==
  /\ orchestrator = "stages" /\ requests = 2
  /\ trail = << "Planning", "Idle" >>
  /\ outcome = "SyntaxError"

\* C21: in the Executing phase of the three-stage workflow the cursor stays
\* on the task at work while the model answers with tool calls (the batch
\* runs and the next call is for the same task, no result is recorded); a
\* final answer records exactly one result for the task and the loop goes on
\* to the task after it, one task further; and once the cursor has passed
\* the last task of the list the loop leaves Executing for Summarizing.
C21_CursorMoves ==
  /\ [](orchestrator = "stages" /\ phase = "Executing" =>
          /\ cursor <= tasks
          /\ pc = "next" => cursor = Len(results)
          /\ pc \in {"call", "tools", "approval"} => cursor = Len(results) + 1)
  /\ [][(orchestrator = "stages" /\ phase = "Executing") =>
          /\ (pc = "call" /\ pc' = "tools")
               => (cursor' = cursor /\ results' = results /\ phase' = "Executing")
          /\ pc = "tools"
               => (cursor' = cursor /\ results' = results
                   /\ pc' \in {"tools", "call"} /\ phase' = "Executing")
          /\ (pc = "call" /\ pc' = "next" /\ Last(results').status = "success")
               => /\ results' = Append(results, TaskResult("success", "none", "none"))
                  /\ cursor' = cursor
          /\ (pc = "next" /\ phase' = "Executing")
               => (cursor < tasks /\ cursor' = cursor + 1 /\ pc' = "call")
          /\ (pc = "next" /\ cursor >= tasks) => phase' = "Summarizing"]_vars

C21_Witness ==
  /\ orchestrator = "stages" /\ phase = "Summarizing"
  /\ tasks = 2 /\ cursor = 2
  /\ Len(results) = 2 /\ \A i \in 1..2 : results[i].status = "success"
  /\ \E i \in 1..Len(history) : history[i].content = "tool_results"

\* C22 (as stated): parseResponse makes of every reply exactly one of tool
\* calls and final answer, or rejects it; a reply that holds both tool_calls
\* and response is rejected, and so is a reply that is no valid JSON.
C22_MixedRejected ==
  \A i \in 1..Len(parsed.types) :
    /\ parsed.types[i] \in {"tool_calls", "response", "error"}
    /\ ~ReplyJson(parsed.contents[i]).valid => parsed.types[i] = "error"
    /\ (/\ ReplyJson(parsed.contents[i]).tool_calls # "absent"
        /\ ReplyJson(parsed.contents[i]).response # "absent")
         => parsed.types[i] = "error"

\* C23 (as stated): the messages of every model call of the Executing phase
\* hold the whole serialized plan, after it the window of turns as the
\* history holds it, and the text of the current request: the context of the
\* task at work in executeTask, the user's message in processMessage.
C23_PlanWindowRequest ==
  ctx.pc = "await" =>
    /\ \E p \in 1..Len(ctx.sent) :
         /\ ctx.sent[p].kind = "plan"
         /\ ctx.sent[p].content = serialize(ctx.plan)
         /\ Len(ctx.sent) = p + Len(ctx.history)
         /\ \A i \in 1..Len(ctx.history) :
              /\ ctx.sent[p + i].kind = ctx.history[i].role
              /\ ctx.sent[p + i].content = ctx.history[i].content
    /\ \E i \in 1..Len(ctx.sent) :
         /\ ctx.sent[i].kind = "user"
         /\ ctx.sent[i].content =
              IF ctx.loop = "stages" THEN taskContext(ctx.task) ELSE "request"

\* C24: a request that ends with the error of an unavailable Ollama is
\* answered by showing the error, and the application goes on: it has not
\* exited unless the user entered /exit, isProcessing is clear again once no
\* request is out, and the next line of text entered after the error is
\* accepted and gets its chat request.
C24_RetryAfterError ==
  /\ []((\E k \in 1..Len(console.responded) : console.responded[k].kind = "error")
          => /\ console.exited => (\E i \in 1..Len(console.lines) : console.lines[i] = "/exit")
             /\ console.inFlight = {} => ~console.isProcessing)
  /\ [][(/\ console.responded # << >>
         /\ Last(console.responded).kind = "error"
         /\ console.inFlight = {}
         /\ console.lines' = Append(console.lines, "text"))
          => /\ console'.inFlight = {Len(console.lines')}
             /\ console'.requested[Len(console.lines')] = 1
             /\ console'.dropped = console.dropped]_vars

C24_Witness ==
  /\ console.lines = << "text", "text" >>
  /\ console.responded = << [id |-> 1, kind |-> "error"], [id |-> 2, kind |-> "agent"] >>
  /\ ~console.exited /\ ~console.isProcessing

\* C25: in every state the TUI reaches, scrollOffset is at least 0 and at
\* most max(0, messages.length - 1).
C25_ScrollBounds ==
  /\ tui.scrollOffset >= 0
  /\ tui.scrollOffset <= Max({0, Len(tui.messages) - 1})

C25_Witness ==
  /\ Len(tui.messages) = 19
  /\ tui.scrollOffset = 18

\* C26 (as stated): a plan that deserialize returns has a goal that is not
\* empty unless its status is planning.
C26_GoalUnlessPlanning ==
  (rt.stage = "parsed" /\ rt.result.success) =>
    (rt.result.value.status # "planning" => rt.result.value.goal # << >>)

\* C27 (as stated): in a plan that deserialize returns, metadata.updatedAt is
\* not before metadata.createdAt.
C27_UpdatedNotBeforeCreated ==
  (rt.stage = "parsed" /\ rt.result.success) =>
    rt.result.value.metadata.updatedAt >= rt.result.value.metadata.createdAt


\* C28: for each of the five sections, a document without the section and a
\* document whose section holds only the serializer's placeholder are both
\* deserialized with success, and both give the empty collection (the empty
\* goal) for that section.
C28_MissingAsPlaceholder ==
  rt.stage = "parsed" =>
    /\ rt.result.success
    /\ \A forms \in [1..Len(SectionOrder) -> SectionForms] :
         rt.markdown = SectionsDoc(forms) =>
           \A i \in 1..Len(SectionOrder) :
             forms[i] \in {"absent", "placeholder"} => SectionValue(rt.result.value, i) = << >>


\* C29: for an Acceptance Criteria section written with any mix of the
\* recognized check marks, the number of parsed criteria that are completed
\* equals the number of lines of the section that carry a recognized check mark.
C29_CheckedCount ==
  rt.stage = "parsed" =>
    \A lines \in SeqsUpTo(CriterionLines, MaxCriterionLines) :
      rt.markdown = CriteriaDoc(lines) =>
        Cardinality({i \in 1..Len(rt.result.value.acceptanceCriteria) :
                       rt.result.value.acceptanceCriteria[i].completed})
          = Cardinality({i \in 1..Len(lines) : HasCheckedBox(lines[i])})


\* C30 (as stated): when the header block is absent or is not closed,
\* deserialize succeeds and the plan has status planning, version 1 and the
\* time of the parse as both timestamps.
C30_HeaderDefaults ==
  rt.stage = "parsed" =>
    \A form \in {"none", "open"}, lines \in SeqsUpTo(HeaderLines, MaxHeaderLines),
       body \in HeaderBodies :
      rt.markdown = HeaderDoc(form, lines, body) =>
        /\ rt.result.success
        /\ rt.result.value.status = "planning"
        /\ rt.result.value.metadata = [createdAt |-> MaxTime, updatedAt |-> MaxTime, version |-> 1]

\* C30 (amended): when the header block is absent or is not closed,
\* deserialize succeeds and the plan has version 1 and the time of the parse
\* as both timestamps; in a closed header each of the three fields that no
\* line states as a number gets the same default.  The status is the one the
\* '**Status:**' line of the body names, planning when the body has none.
C30_HeaderDefaultsBodyStatus ==
  rt.stage = "parsed" =>
    \A form \in {"none", "open", "closed"}, lines \in SeqsUpTo(HeaderLines, MaxHeaderLines),
       body \in HeaderBodies :
      rt.markdown = HeaderDoc(form, lines, body) =>
        /\ rt.result.success
        /\ rt.result.value.status
             = (IF body = << "**Status:**", " ", "failed" >> THEN "failed" ELSE "planning")
        /\ form # "closed" =>
             rt.result.value.metadata
               = [createdAt |-> MaxTime, updatedAt |-> MaxTime, version |-> 1]
        /\ form = "closed" =>
             /\ (\A i \in 1..Len(lines) : lines[i] # << "createdAt", ":", " ", "3" >>)
                  => rt.result.value.metadata.createdAt = MaxTime
             /\ (\A i \in 1..Len(lines) : lines[i] # << "updatedAt", ":", " ", "1" >>)
                  => rt.result.value.metadata.updatedAt = MaxTime
             /\ (\A i \in 1..Len(lines) : lines[i] # << "version", ":", " ", "2" >>)
                  => rt.result.value.metadata.version = 1

\* A header that is not closed, over a body whose status line says failed:
\* the plan is failed, at version 1, created at the time of the parse.
C30_Witness ==
  /\ rt.stage = "parsed"
  /\ rt.markdown = HeaderDoc("open", << << "createdAt", ":", " ", "3" >>, << "version", ":", " ", "2" >> >>,
                             << "**Status:**", " ", "failed" >>)
  /\ rt.result.success
  /\ rt.result.value.status = "failed"
  /\ rt.result.value.metadata = [createdAt |-> MaxTime, updatedAt |-> MaxTime, version |-> 1]


\* The fields of AppState that the reducer keeps in the state record.
SameBut(s, u, field) ==
  /\ field # "messages" => s.messages = u.messages
  /\ field # "currentInput" => s.currentInput = u.currentInput
  /\ field # "scrollOffset" => s.scrollOffset = u.scrollOffset
  /\ field # "terminalHeight" => s.terminalHeight = u.terminalHeight

\* C31: SUBMIT_INPUT, when currentInput has a character that is no white
\* space, appends exactly one user message whose content is currentInput,
\* clears currentInput and sets scrollOffset to 0; otherwise it returns the
\* state as it was.
C31_SubmitInput ==
  LET next == appReducer(tui, [type |-> "SUBMIT_INPUT"])
  IN  IF tui.currentInput \notin {"", " "}
      THEN /\ Len(next.messages) = Len(tui.messages) + 1
           /\ SubSeq(next.messages, 1, Len(tui.messages)) = tui.messages
           /\ next.messages[Len(next.messages)].role = "user"
           /\ next.messages[Len(next.messages)].content = tui.currentInput
           /\ next.currentInput = ""
           /\ next.scrollOffset = 0
           /\ next.terminalHeight = tui.terminalHeight
      ELSE next = tui

\* A submitted "y" is the newest message, after the test messages; the
\* input is empty again and the view is at the bottom.
C31_Witness ==
  /\ Len(tui.messages) = 19
  /\ SubSeq(tui.messages, 1, 18) = testMessages
  /\ tui.messages[19] = createMessage("user", "y", 19)
  /\ tui.currentInput = ""
  /\ tui.scrollOffset = 0

\* C32: ADD_MESSAGE puts the new message at the end of messages, keeps the
\* earlier messages in their order, and sets scrollOffset to 0 whatever it
\* was before.
C32_AddMessage ==
  \A role \in {"user", "agent", "system"} :
    LET message == createMessage(role, "reply", Len(tui.messages) + 1)
        next == appReducer(tui, [type |-> "ADD_MESSAGE", message |-> message])
    IN  /\ next.messages = Append(tui.messages, message)
        /\ next.scrollOffset = 0

\* The agent's reply is the newest message, after the test messages and a
\* message of the user, and the view is at the bottom.
C32_Witness ==
  /\ Len(tui.messages) = 20
  /\ SubSeq(tui.messages, 1, 18) = testMessages
  /\ tui.messages[19] = createMessage("user", "x", 19)
  /\ tui.messages[20] = createMessage("agent", "reply", 20)
  /\ tui.scrollOffset = 0

\* C33: TERMINAL_RESIZE changes terminalHeight only, UPDATE_INPUT and
\* CLEAR_INPUT change currentInput only, SCROLL_UP, SCROLL_DOWN and
\* SCROLL_TO_BOTTOM change scrollOffset only; none of them changes messages.
C33_Frames ==
  /\ \A height \in {1, 24, 40} :
       SameBut(appReducer(tui, [type |-> "TERMINAL_RESIZE", height |-> height]), tui,
               "terminalHeight")
  /\ \A input \in {"", " ", "x", "y"} :
       SameBut(appReducer(tui, [type |-> "UPDATE_INPUT", input |-> input]), tui,
               "currentInput")
  /\ SameBut(appReducer(tui, [type |-> "CLEAR_INPUT"]), tui, "currentInput")
  /\ \A lines \in {1, 3, 5, pageLines} :
       /\ SameBut(appReducer(tui, [type |-> "SCROLL_UP", lines |-> lines]), tui,
                  "scrollOffset")
       /\ SameBut(appReducer(tui, [type |-> "SCROLL_DOWN", lines |-> lines]), tui,
                  "scrollOffset")
  /\ SameBut(appReducer(tui, [type |-> "SCROLL_TO_BOTTOM"]), tui, "scrollOffset")

\* A state with messages, a typed input and a view scrolled up, after a
\* resize.
C33_Witness ==
  /\ Len(tui.messages) = 20
  /\ tui.currentInput = "y"
  /\ tui.scrollOffset = 11
  /\ tui.terminalHeight = 40

\* C34: sliceMessages leaves its input as it was and returns, in the original
\* order, the run of at most visibleLines messages that ends scrollOffset
\* messages before the newest one; when scrollOffset is at least the number
\* of messages it returns the empty list.
C34_SliceWindow ==
  sliced.done =>
    LET n == Len(sliced.messages)
        e == n - sliced.scrollOffset
    IN /\ \A i \in 1..n : sliced.messages[i].id = i
       /\ IF sliced.scrollOffset >= n THEN sliced.result = << >>
          ELSE sliced.result = SubSeq(sliced.messages, Max({1, e - sliced.visibleLines + 1}), e)


\* C39: whenever the TUI has at least one message, the chat area's slice of
\* them is not empty, whatever the height of the terminal: the reducer's
\* bound on scrollOffset keeps the window inside the list.
C39_NeverEmptyView ==
  tui.messages # << >> =>
    \A rows \in TerminalRows :
      LET visibleMessages == sliceMessages(tui.messages, visibleLinesOf(rows), tui.scrollOffset)
      IN /\ visibleMessages # << >>
         /\ Last(visibleMessages) = tui.messages[Len(tui.messages) - tui.scrollOffset]

C39_Witness ==
  /\ Len(tui.messages) = 19
  /\ tui.scrollOffset = 18
  /\ sliceMessages(tui.messages, visibleLinesOf(24), tui.scrollOffset) = << testMessages[1] >>
  /\ sliceMessages(tui.messages, visibleLinesOf(4), tui.scrollOffset) = << testMessages[1] >>


\* C35: the request of each processMessage call holds the configured system
\* prompt, when there is one, followed by the user message of that call and
\* nothing else, so calls with the same message under the same configuration
\* send the same request, whatever was sent or answered before.
C35_RequestFromCurrentMessage ==
  /\ Len(simple.requests) = Len(simple.inputs)
  /\ \A k \in 1..Len(simple.requests) :
       LET messages == simple.requests[k].messages
       IN /\ simple.requests[k].model = "deepseek-coder-v2:16b"
          /\ ~simple.requests[k].stream
          /\ Last(messages) = [role |-> "user", content |-> simple.inputs[k]]
          /\ IF simple.systemPrompt = "" THEN Len(messages) = 1
             ELSE /\ Len(messages) = 2
                  /\ messages[1] = [role |-> "system", content |-> simple.systemPrompt]
  /\ \A j, k \in 1..Len(simple.requests) :
       simple.inputs[j] = simple.inputs[k] => simple.requests[j] = simple.requests[k]

C35_Witness ==
  /\ simple.systemPrompt # ""
  /\ simple.inputs = << "Hello!", "And then?" >>
  /\ Len(simple.results) = 1 /\ simple.results[1].success
  /\ Len(simple.requests[2].messages) = 2

\* C36: what processMessage returns is a success exactly when the client's
\* chat result is one, and then carries the content of the assistant's
\* message; for a failed chat it carries the client's error, with the same
\* code, message and status code.
C36_ResultFollowsChat ==
  /\ Len(simple.results) = Len(simple.replies)
  /\ \A k \in 1..Len(simple.results) :
       /\ simple.results[k].success = simple.replies[k].success
       /\ IF simple.replies[k].success
          THEN simple.results[k] =
                 [success |-> TRUE, value |-> simple.replies[k].value.message.content]
          ELSE /\ DOMAIN simple.results[k] = {"success", "error"}
               /\ simple.results[k].error.code = simple.replies[k].error.code
               /\ simple.results[k].error.message = simple.replies[k].error.message
               /\ simple.results[k].error.statusCode = simple.replies[k].error.statusCode
               /\ simple.results[k].error = simple.replies[k].error

C36_Witness ==
  /\ Len(simple.results) = 2
  /\ simple.results[1] = [success |-> FALSE,
                          error |-> OllamaError("Ollama API error", "HTTP_ERROR", 404)]
  /\ simple.results[2] = [success |-> TRUE, value |-> "Hello! How can I help you today?"]


\* C37: after every input the console accepted, isProcessing is false again
\* once the handler has ended, by returning or by rejecting: whenever no
\* request is in flight the flag is clear, and a line of text entered then
\* is not refused as still processing.
C37_FlagClearedAfterHandler ==
  /\ [](~console.exited /\ console.inFlight = {} => ~console.isProcessing)
  /\ [][console.inFlight = {} /\ Len(console'.lines) = Len(console.lines) + 1
          /\ Last(console'.lines) = "text"
        => Len(console'.lines) \notin console'.dropped]_vars

\* C40: a line /exit ends the session at once, with or without a request in
\* flight: the line sets exited, and after it no line is read and no request
\* is answered.
C40_ExitAlwaysEnds ==
  /\ [](\A i \in 1..Len(console.lines) :
          console.lines[i] = "/exit" => console.exited /\ i = Len(console.lines))
  /\ [][console.exited => console' = console]_vars

C40_Witness ==
  /\ console.exited
  /\ console.lines = << "text", "/exit" >>
  /\ console.inFlight = {1} /\ console.isProcessing
  /\ console.responded = << >>


\* C38: with a backend that answers every call and a finite task list, a
\* request that has left Idle comes back to Idle: the loop does not stay in
\* Planning, Executing or Summarizing forever.
C38_ReachesIdle == (phase # "Idle") ~> (phase = "Idle")

\* C38, amended: the same, for a user who answers every question the loop
\* asks (the loop is not left waiting at an approval question forever; the
\* confirmation of the summary is given within the Summarize step).
C38_ReachesIdleWhenApprovalAnswered ==
  []<>(pc # "approval") => ((phase # "Idle") ~> (phase = "Idle"))

C38_Witness ==
  /\ orchestrator = "stages"
  /\ phase = "Idle"
  /\ trail = << "Planning", "Executing", "Summarizing", "Idle" >>
  /\ tasks = MaxTasks
  /\ Len(results) = MaxTasks
  /\ results[1].error = "Max iterations reached"
  /\ outcome = "completed"

====
